---- MODULE Spec2Model ----
(***************************************************************************)
(* Model of the retrieval-augmented question-answering command line tool:  *)
(* provider resolution (config.py, chat.py), retrieval (search.py) and the *)
(* interactive loop (chat.py).                                             *)
(*                                                                         *)
(* Python strings are sequences of one-character strings, so that strip()  *)
(* and lower() are computed and not assumed.  An Optional[str] is a        *)
(* sequence of length 0 (None) or 1 (the string).  A function that returns *)
(* or raises yields Return(value) or Raise(type, error).                   *)
(*                                                                         *)
(* Specifications:                                                         *)
(*   SpecLLM     one call of resolve_llm, a step per loop iteration        *)
(*   SpecEmb     calls of resolve_backend and resolve_embeddings           *)
(*   SpecSearch  one call of search_similar_chunks, a step per call made   *)
(*   SpecChat    chat.main: start-up, resolve_llm, the input loop and the  *)
(*               turns, each running search_similar_chunks                 *)
(*   SpecIngest  runs of ingest_pdf on one collection, a step per store    *)
(*               call of ingest_documents                                  *)
(*   SpecUrl     one call of resolve_pgvector_url                          *)
(*   SpecEcho    build_prompt followed by the offline echo backend         *)
(*                                                                         *)
(* The constructors of the provider clients are library code and are taken *)
(* to succeed once the credential and the optional import are present; the *)
(* store and the cloud models answer or fail nondeterministically.         *)
(***************************************************************************)
EXTENDS Naturals, Integers, Sequences, FiniteSets, TLC

VARIABLES
    env,                      \* os.environ: variable name -> Optional[str]
    ChatGoogleGenerativeAI,   \* chat.py:13-16, FALSE when the import failed
    preferred_provider,       \* resolve_llm argument
    model_override,           \* resolve_llm argument
    l_pc,                     \* position inside resolve_llm
    normalized,               \* chat.py:72-73
    l_i,                      \* index of the loop variable `provider` in normalized
    errors,                   \* chat.py:75, insertion-ordered dict
    attempts,                 \* history: indices of the candidates the loop body ran for
    l_out,                    \* value returned / exception raised by resolve_llm
    GoogleGenerativeAIEmbeddings, \* config.py:12-15, FALSE when the import failed
    explicit_backend,         \* argument of resolve_backend / resolve_embeddings
    e_backend,                \* outcome of the call resolve_backend(explicit_backend)
    e_embeddings,             \* outcome of the call resolve_embeddings(explicit_backend)
    s_pc,                     \* position inside search_similar_chunks
    query,                    \* search_similar_chunks argument
    k,                        \* search_similar_chunks argument
    s_provider,               \* search_similar_chunks argument `provider`
    s_embeddings,             \* search.py:53, the (backend, embeddings) pair
    s_out,                    \* value returned / exception raised by search_similar_chunks
    calls,                    \* history: calls made for the current search / input line
    args,                     \* chat.py:151, the parsed command line
    m_pc,                     \* position inside chat.main
    embedding_provider,       \* chat.py:153
    llm_backend,              \* chat.py:156
    line,                     \* chat.py:164, the text input() returned
    user_input,               \* chat.py:164
    lines_read,               \* history: how many times input() returned a line
    prompt,                   \* chat.py:145
    h_out,                    \* value returned / exception raised by handle_question
    stdout,                   \* what main has printed
    exit_status,              \* process exit status, "running" before the exit
    i_args,                   \* argparse namespace of ingest_pdf
    i_pc,                     \* position inside ingest_pdf / ingest_documents
    documents,                \* ingest_documents argument
    reset_collection,         \* ingest_documents argument
    ids,                      \* ingest.py:88
    i_out,                    \* value returned / exception raised by ingest_documents
    store,                    \* the collection in the database: exists, rows by id
    store_calls,              \* history: store calls of the current run, with outcomes
    runs,                     \* history: number of ingestion runs started
    rows_before,              \* history: rows of the collection when the run started
    previous_out,             \* history: i_out of the run before the current one
    u_pc,                     \* position of the call of resolve_pgvector_url
    u_dns,                    \* history: whether socket.gethostbyname answered
    u_out,                    \* value returned / exception raised by it
    u_log,                    \* records logged by LOGGER of config
    p_pc,                     \* position of the offline echo run
    p_question,               \* build_prompt argument
    p_context,                \* build_prompt argument
    p_prompt,                 \* value returned by build_prompt
    p_out                     \* value returned by _LocalEchoLLM.invoke

search_vars == <<s_pc, query, k, s_provider, s_embeddings, s_out, calls>>

chat_vars == <<args, m_pc, embedding_provider, llm_backend, line, user_input, lines_read,
               prompt, h_out, stdout, exit_status>>

emb_vars == <<explicit_backend, e_backend, e_embeddings>>

llm_vars == <<preferred_provider, model_override, l_pc, normalized, l_i, errors,
              attempts, l_out>>

ingest_vars == <<i_args, i_pc, documents, reset_collection, ids, i_out, store,
                 store_calls, runs, rows_before, previous_out>>

url_vars == <<u_pc, u_dns, u_out, u_log>>

echo_vars == <<p_pc, p_question, p_context, p_prompt, p_out>>

tool_vars == <<ingest_vars, url_vars, echo_vars>>

vars == <<env, ChatGoogleGenerativeAI, GoogleGenerativeAIEmbeddings, llm_vars, emb_vars,
          search_vars, chat_vars, tool_vars>>

-----------------------------------------------------------------------------
(* Strings *)

None == <<>>
Some(s) == <<s>>

Whitespace == {" ", "\t", "\n"}

UpperChars == <<"A","B","C","D","E","F","G","H","I","J","K","L","M",
                "N","O","P","Q","R","S","T","U","V","W","X","Y","Z">>
LowerChars == <<"a","b","c","d","e","f","g","h","i","j","k","l","m",
                "n","o","p","q","r","s","t","u","v","w","x","y","z">>

lower_char(c) ==
    IF \E n \in 1..Len(UpperChars) : UpperChars[n] = c
    THEN LowerChars[CHOOSE n \in 1..Len(UpperChars) : UpperChars[n] = c]
    ELSE c

\* str.lower()
lower(s) == [n \in 1..Len(s) |-> lower_char(s[n])]

RECURSIVE lstrip(_)
lstrip(s) == IF s # <<>> /\ Head(s) \in Whitespace THEN lstrip(Tail(s)) ELSE s

RECURSIVE rstrip(_)
rstrip(s) ==
    IF s # <<>> /\ s[Len(s)] \in Whitespace THEN rstrip(SubSeq(s, 1, Len(s) - 1)) ELSE s

\* str.strip()
strip(s) == rstrip(lstrip(s))

\* bool(x) for an Optional[str]
truthy(o) == o # None /\ o[1] # <<>>

\* Python's `a or b`
or_else(a, b) == IF truthy(a) THEN a ELSE b

\* os.getenv(key) and os.getenv(key, default)
getenv(key) == env[key]
getenv_default(key, default) == IF env[key] = None THEN Some(default) ELSE env[key]

-----------------------------------------------------------------------------
(* Names that occur in the source *)

openai == <<"o","p","e","n","a","i">>
google == <<"g","o","o","g","l","e">>
fake == <<"f","a","k","e">>

OPENAI_DEFAULT_CHAT_MODEL == <<"g","p","t","-","5","-","n","a","n","o">>
GOOGLE_DEFAULT_CHAT_MODEL ==
    <<"g","e","m","i","n","i","-","2",".","5","-","f","l","a","s","h","-","l","i","t","e">>
FAKE_DEFAULT_CHAT_MODEL == <<"f","a","k","e","-","l","o","c","a","l">>

EnvNames ==
    {"LLM_PROVIDER", "OPENAI_API_KEY", "GOOGLE_API_KEY", "EMBEDDINGS_PROVIDER",
     "FAKE_EMBEDDING_SIZE", "OPENAI_EMBEDDING_MODEL", "GOOGLE_EMBEDDING_MODEL",
     "GOOGLE_EMBEDDING_TRANSPORT", "PGVECTOR_URL", "DATABASE_URL", "PG_VECTOR_URL",
     "PGVECTOR_FALLBACK_HOST", "PGVECTOR_COLLECTION", "PG_VECTOR_COLLECTION_NAME"}

\* an environment that sets the variables of `set` and no other
environ(set) == [n \in EnvNames |-> IF n \in DOMAIN set THEN set[n] ELSE None]

Return(v) == [kind |-> "return", value |-> v]
Raise(type, error) == [kind |-> "raise", type |-> type, error |-> error]
NoOutcome == [kind |-> "none"]

\* no call of resolve_llm is in progress
llm_idle ==
    /\ preferred_provider = None
    /\ model_override = None
    /\ l_pc = "idle"
    /\ normalized = <<>>
    /\ l_i = 0
    /\ errors = <<>>
    /\ attempts = <<>>
    /\ l_out = NoOutcome

\* no call of the config functions has been made
emb_idle ==
    /\ explicit_backend = None
    /\ e_backend = NoOutcome
    /\ e_embeddings = NoOutcome

\* no call of search_similar_chunks is in progress
search_idle ==
    /\ s_pc = "idle"
    /\ query = <<>>
    /\ k = 0
    /\ s_provider = None
    /\ s_embeddings = NoOutcome
    /\ s_out = NoOutcome
    /\ calls = <<>>

\* chat.main is not running
chat_idle ==
    /\ args = [k |-> 0, embedding_provider |-> None, llm_provider |-> None,
               llm_model |-> None]
    /\ m_pc = "idle"
    /\ embedding_provider = <<>>
    /\ llm_backend = NoOutcome
    /\ line = <<>>
    /\ user_input = <<>>
    /\ lines_read = 0
    /\ prompt = <<>>
    /\ h_out = NoOutcome
    /\ stdout = <<>>
    /\ exit_status = "running"

\* ingest_pdf is not running and the collection does not exist
ingest_idle ==
    /\ i_args = [append |-> FALSE]
    /\ i_pc = "idle"
    /\ documents = <<>>
    /\ reset_collection = FALSE
    /\ ids = <<>>
    /\ i_out = NoOutcome
    /\ store = [exists |-> FALSE, rows |-> <<>>]
    /\ store_calls = <<>>
    /\ runs = 0
    /\ rows_before = <<>>
    /\ previous_out = NoOutcome

\* no call of resolve_pgvector_url has been made
url_idle ==
    /\ u_pc = "idle"
    /\ u_dns = FALSE
    /\ u_out = NoOutcome
    /\ u_log = <<>>

\* the offline echo backend has not been invoked
echo_idle ==
    /\ p_pc = "idle"
    /\ p_question = <<>>
    /\ p_context = <<>>
    /\ p_prompt = <<>>
    /\ p_out = NoOutcome

tool_idle == ingest_idle /\ url_idle /\ echo_idle

-----------------------------------------------------------------------------
(* dict with insertion order: sequence of [key, value] records *)

dict_has(d, name) == \E n \in 1..Len(d) : d[n].key = name
dict_get(d, name) == d[CHOOSE n \in 1..Len(d) : d[n].key = name].value
dict_keys(d) == {d[n].key : n \in 1..Len(d)}
dict_set(d, name, v) ==
    IF dict_has(d, name)
    THEN [n \in 1..Len(d) |-> IF d[n].key = name THEN [key |-> name, value |-> v] ELSE d[n]]
    ELSE Append(d, [key |-> name, value |-> v])

-----------------------------------------------------------------------------
(* resolve_llm, chat.py:60-105 *)

\* what a step of resolve_llm leaves alone
llm_frame == <<env, ChatGoogleGenerativeAI, GoogleGenerativeAIEmbeddings, emb_vars,
               search_vars, chat_vars, tool_vars>>

\* faulty variant: the offline backend is appended after the preferred provider
candidates_with_fallback(preferred) ==
    IF truthy(preferred)
    THEN << lower(preferred[1]), <<"f","a","k","e">> >>
    ELSE << or_else(Some(lower(strip(getenv_default("LLM_PROVIDER", <<>>)[1]))),
                    Some(<<>>))[1],
            <<"o","p","e","n","a","i">>, <<"g","o","o","g","l","e">>, <<"f","a","k","e">> >>

\* faulty variant: the preferred provider is put in front of the default list
candidates_preferred_first(preferred) ==
    << or_else(Some(lower(or_else(preferred, Some(<<>>))[1])),
               Some(lower(strip(getenv_default("LLM_PROVIDER", <<>>)[1]))))[1],
       <<"o","p","e","n","a","i">>, <<"g","o","o","g","l","e">>, <<"f","a","k","e">> >>

\* faulty variant: the offline backend is left out of the list built from the
\* environment
candidates_without_offline(preferred) ==
    IF truthy(preferred)
    THEN << lower(preferred[1]) >>
    ELSE << or_else(Some(lower(strip(getenv_default("LLM_PROVIDER", <<>>)[1]))),
                    Some(<<>>))[1],
            openai, google >>

\* faulty variant: a configured provider that is in the default list is not repeated
candidates_without_repeat(preferred) ==
    IF truthy(preferred)
    THEN << lower(preferred[1]) >>
    ELSE LET configured == or_else(Some(lower(strip(getenv_default("LLM_PROVIDER",
                                                                  <<>>)[1]))),
                                   Some(<<>>))[1]
         IN << configured >> \o SelectSeq(<<openai, google, fake>>,
                                          LAMBDA c : c # configured)

\* chat.py:64-70
candidates(preferred) ==
    IF truthy(preferred)
    THEN << lower(preferred[1]) >>
    ELSE << or_else(Some(lower(strip(getenv_default("LLM_PROVIDER", <<>>)[1]))),
                    Some(<<>>))[1],
            openai, google, fake >>

\* chat.py:72-73
normalize(cands) ==
    LET kept == SelectSeq(cands, LAMBDA c : c # <<>>)
    IN IF kept # <<>> THEN kept ELSE <<openai, google, fake>>

ChatBackend(provider, model, client) ==
    [kind |-> "return", provider |-> provider, model |-> model, client |-> client]

\* chat.py:64-75
resolve_llm_candidates ==
    /\ l_pc = "candidates"
    /\ normalized' = normalize(candidates(preferred_provider))
    /\ errors' = <<>>
    /\ l_i' = 1
    /\ l_pc' = "loop"
    /\ UNCHANGED <<preferred_provider, model_override, attempts, l_out>>
    /\ UNCHANGED llm_frame

\* the for statement picks the next element, chat.py:76
provider == normalized[l_i]
in_loop == l_pc = "loop" /\ l_i <= Len(normalized)

\* `continue` after recording a reason
continue_with(reason) ==
    /\ errors' = dict_set(errors, provider, reason)
    /\ l_i' = l_i + 1
    /\ UNCHANGED <<l_pc, l_out>>

\* `return ChatBackend(...)`
return_backend(name, default_model, client) ==
    /\ l_out' = ChatBackend(name, or_else(model_override, Some(default_model))[1], client)
    /\ l_pc' = "done"
    /\ UNCHANGED <<errors, l_i>>

\* chat.py:77-84
resolve_llm_openai ==
    /\ in_loop
    /\ provider = openai
    /\ attempts' = Append(attempts, l_i)
    /\ IF ~truthy(getenv("OPENAI_API_KEY"))
       THEN continue_with("OPENAI_API_KEY ausente")
       ELSE return_backend(openai, OPENAI_DEFAULT_CHAT_MODEL, "ChatOpenAI")
    /\ UNCHANGED <<preferred_provider, model_override, normalized>>
    /\ UNCHANGED llm_frame

\* faulty variant: the optional import is not checked
resolve_llm_google_unchecked_import ==
    /\ in_loop
    /\ provider = google
    /\ attempts' = Append(attempts, l_i)
    /\ IF ~truthy(getenv("GOOGLE_API_KEY"))
       THEN continue_with("GOOGLE_API_KEY ausente")
       ELSE return_backend(google, GOOGLE_DEFAULT_CHAT_MODEL, "ChatGoogleGenerativeAI")
    /\ UNCHANGED <<preferred_provider, model_override, normalized>>
    /\ UNCHANGED llm_frame

\* chat.py:86-96
resolve_llm_google ==
    /\ in_loop
    /\ provider = google
    /\ attempts' = Append(attempts, l_i)
    /\ IF ~truthy(getenv("GOOGLE_API_KEY"))
       THEN continue_with("GOOGLE_API_KEY ausente")
       ELSE IF ~ChatGoogleGenerativeAI
            THEN continue_with("pacote langchain-google-genai nao instalado")
            ELSE return_backend(google, GOOGLE_DEFAULT_CHAT_MODEL, "ChatGoogleGenerativeAI")
    /\ UNCHANGED <<preferred_provider, model_override, normalized>>
    /\ UNCHANGED llm_frame

\* chat.py:98-100
resolve_llm_fake ==
    /\ in_loop
    /\ provider = fake
    /\ attempts' = Append(attempts, l_i)
    /\ return_backend(fake, FAKE_DEFAULT_CHAT_MODEL, "_LocalEchoLLM")
    /\ UNCHANGED <<preferred_provider, model_override, normalized>>
    /\ UNCHANGED llm_frame

\* faulty variant: an unknown provider ends the loop at once
resolve_llm_unknown_raises ==
    /\ in_loop
    /\ provider \notin {openai, google, fake}
    /\ attempts' = Append(attempts, l_i)
    /\ errors' = dict_set(errors, provider, "provedor desconhecido")
    /\ l_out' = [kind |-> "raise", type |-> "RuntimeError", details |-> errors']
    /\ l_pc' = "done"
    /\ UNCHANGED <<preferred_provider, model_override, normalized, l_i>>
    /\ UNCHANGED llm_frame

\* chat.py:102
resolve_llm_unknown ==
    /\ in_loop
    /\ provider \notin {openai, google, fake}
    /\ attempts' = Append(attempts, l_i)
    /\ continue_with("provedor desconhecido")
    /\ UNCHANGED <<preferred_provider, model_override, normalized>>
    /\ UNCHANGED llm_frame

\* chat.py:104-105
resolve_llm_raise ==
    /\ l_pc = "loop"
    /\ l_i > Len(normalized)
    /\ l_out' = [kind |-> "raise", type |-> "RuntimeError", details |-> errors]
    /\ l_pc' = "done"
    /\ UNCHANGED <<preferred_provider, model_override, normalized, l_i, errors, attempts>>
    /\ UNCHANGED llm_frame

resolve_llm ==
    \/ resolve_llm_candidates
    \/ resolve_llm_openai
    \/ resolve_llm_google
    \/ resolve_llm_fake
    \/ resolve_llm_unknown
    \/ resolve_llm_raise

-----------------------------------------------------------------------------
(* Inputs of resolve_llm *)

KeyValues == {None, Some(<<>>), Some(<<"s","k">>)}

ProviderArgs ==
    {None, Some(<<>>), Some(openai), Some(<<"O","p","e","n","A","I">>), Some(google),
     Some(fake), Some(<<"a","z","u","r","e">>), Some(<<" ","f","a","k","e">>)}

LlmProviderEnv ==
    {None, Some(<<>>), Some(<<" "," ">>), Some(openai), Some(<<" ","G","o","o","g","l","e"," ">>),
     Some(fake), Some(<<"a","z","u","r","e">>)}

ModelArgs == {None, Some(<<>>), Some(<<"m","1">>)}

InitLLM ==
    /\ \E p \in LlmProviderEnv, ko \in KeyValues, kg \in KeyValues :
         env = environ([LLM_PROVIDER |-> p, OPENAI_API_KEY |-> ko, GOOGLE_API_KEY |-> kg])
    /\ ChatGoogleGenerativeAI \in BOOLEAN
    /\ preferred_provider \in ProviderArgs
    /\ model_override \in ModelArgs
    /\ l_pc = "candidates"
    /\ normalized = <<>>
    /\ l_i = 0
    /\ errors = <<>>
    /\ attempts = <<>>
    /\ l_out = NoOutcome
    /\ GoogleGenerativeAIEmbeddings = ChatGoogleGenerativeAI
    /\ emb_idle
    /\ search_idle
    /\ chat_idle
    /\ tool_idle


NextLLM == resolve_llm

SpecLLM == InitLLM /\ [][NextLLM]_vars

-----------------------------------------------------------------------------
(* config.py: get_env_value, resolve_backend, resolve_embeddings *)

\* config.py:22-31; `names` is (name, *alternatives)
RECURSIVE get_env_value(_, _)
get_env_value(names, required) ==
    IF names = <<>>
    THEN IF required THEN Raise("RuntimeError", "CredentialMissing") ELSE Return(<<>>)
    ELSE IF truthy(getenv(Head(names)))
         THEN Return(getenv(Head(names))[1])
         ELSE get_env_value(Tail(names), required)

\* faulty variant: the configuration override is read before the explicit argument
resolve_backend_env_first(explicit) ==
    LET choice == lower(strip(or_else(getenv("EMBEDDINGS_PROVIDER"),
                                      or_else(explicit, Some(<<>>)))[1]))
        inferred == IF truthy(getenv("OPENAI_API_KEY")) THEN openai
                    ELSE IF truthy(getenv("GOOGLE_API_KEY")) THEN google
                    ELSE fake
        final == IF choice = <<>> THEN inferred ELSE choice
    IN IF final \notin {openai, google, fake}
       THEN Raise("ValueError", "UnsupportedBackend")
       ELSE Return(final)

\* config.py:34-45
resolve_backend(explicit) ==
    LET choice == lower(strip(or_else(explicit,
                                      or_else(getenv("EMBEDDINGS_PROVIDER"), Some(<<>>)))[1]))
        inferred == IF truthy(getenv("OPENAI_API_KEY")) THEN openai
                    ELSE IF truthy(getenv("GOOGLE_API_KEY")) THEN google
                    ELSE fake
        final == IF choice = <<>> THEN inferred ELSE choice
    IN IF final \notin {openai, google, fake}
       THEN Raise("ValueError", "UnsupportedBackend")
       ELSE Return(final)

DigitChars == <<"0","1","2","3","4","5","6","7","8","9">>
is_digit(c) == \E n \in 1..Len(DigitChars) : DigitChars[n] = c
digit_value(c) == (CHOOSE n \in 1..Len(DigitChars) : DigitChars[n] = c) - 1

\* value of a run of digits and underscores, most significant digit first
RECURSIVE digits_value(_, _)
digits_value(s, acc) ==
    IF s = <<>> THEN acc
    ELSE IF Head(s) = "_" THEN digits_value(Tail(s), acc)
         ELSE digits_value(Tail(s), acc * Len(DigitChars) + digit_value(Head(s)))

\* int(str): surrounding whitespace is dropped, one sign is allowed, then decimal
\* digits, with single underscores allowed between digits
int_str(s) ==
    LET t == strip(s)
        signed == t # <<>> /\ Head(t) \in {"+", "-"}
        body == IF signed THEN Tail(t) ELSE t
        wellformed ==
            /\ body # <<>>
            /\ \A n \in 1..Len(body) : is_digit(body[n]) \/ body[n] = "_"
            /\ is_digit(body[1]) /\ is_digit(body[Len(body)])
            /\ \A n \in 1..(Len(body) - 1) : ~(body[n] = "_" /\ body[n + 1] = "_")
    IN IF ~wellformed THEN Raise("ValueError", "invalid literal for int()")
       ELSE Return(IF signed /\ Head(t) = "-" THEN 0 - digits_value(body, 0)
                   ELSE digits_value(body, 0))

OPENAI_DEFAULT_EMBEDDING_MODEL ==
    <<"t","e","x","t","-","e","m","b","e","d","d","i","n","g","-","3","-","s","m","a","l","l">>
GOOGLE_DEFAULT_EMBEDDING_MODEL ==
    <<"m","o","d","e","l","s","/","e","m","b","e","d","d","i","n","g","-","0","0","1">>
FAKE_DEFAULT_EMBEDDING_SIZE == <<"1","5","3","6">>

\* config.py:50-53
openai_embeddings(backend) ==
    LET api_key == get_env_value(<<"OPENAI_API_KEY">>, TRUE)
    IN IF api_key.kind = "raise" THEN api_key
       ELSE Return([backend |-> backend,
                    embeddings |->
                       [class |-> "OpenAIEmbeddings",
                        model |-> getenv_default("OPENAI_EMBEDDING_MODEL",
                                                 OPENAI_DEFAULT_EMBEDDING_MODEL)[1],
                        api_key |-> api_key.value]])

\* faulty variant: the credential is read before the optional import is checked
google_embeddings_key_first(backend) ==
    LET api_key == get_env_value(<<"GOOGLE_API_KEY">>, TRUE)
    IN IF api_key.kind = "raise" THEN api_key
       ELSE IF ~GoogleGenerativeAIEmbeddings
            THEN Raise("RuntimeError", "CapabilityUnavailable")
            ELSE Return([backend |-> backend,
                         embeddings |->
                            [class |-> "GoogleGenerativeAIEmbeddings",
                             model |-> getenv_default("GOOGLE_EMBEDDING_MODEL",
                                                      GOOGLE_DEFAULT_EMBEDDING_MODEL)[1],
                             google_api_key |-> api_key.value,
                             transport |-> IF truthy(getenv("GOOGLE_EMBEDDING_TRANSPORT"))
                                           THEN getenv("GOOGLE_EMBEDDING_TRANSPORT")
                                           ELSE None]])

\* config.py:55-66
google_embeddings(backend) ==
    IF ~GoogleGenerativeAIEmbeddings
    THEN Raise("RuntimeError", "CapabilityUnavailable")
    ELSE LET api_key == get_env_value(<<"GOOGLE_API_KEY">>, TRUE)
         IN IF api_key.kind = "raise" THEN api_key
            ELSE Return([backend |-> backend,
                         embeddings |->
                            [class |-> "GoogleGenerativeAIEmbeddings",
                             model |-> getenv_default("GOOGLE_EMBEDDING_MODEL",
                                                      GOOGLE_DEFAULT_EMBEDDING_MODEL)[1],
                             google_api_key |-> api_key.value,
                             transport |-> IF truthy(getenv("GOOGLE_EMBEDDING_TRANSPORT"))
                                           THEN getenv("GOOGLE_EMBEDDING_TRANSPORT")
                                           ELSE None]])

\* config.py:68-69
fake_embeddings(backend) ==
    LET size == int_str(getenv_default("FAKE_EMBEDDING_SIZE", FAKE_DEFAULT_EMBEDDING_SIZE)[1])
    IN IF size.kind = "raise" THEN size
       ELSE Return([backend |-> backend,
                    embeddings |-> [class |-> "FakeEmbeddings", size |-> size.value]])

\* config.py:48-69
resolve_embeddings(explicit) ==
    LET backend == resolve_backend(explicit)
    IN IF backend.kind = "raise" THEN backend
       ELSE IF backend.value = openai THEN openai_embeddings(backend.value)
       ELSE IF backend.value = google THEN google_embeddings(backend.value)
       ELSE fake_embeddings(backend.value)

\* what a call of the config functions leaves alone
emb_frame == <<env, ChatGoogleGenerativeAI, GoogleGenerativeAIEmbeddings, llm_vars,
               search_vars, chat_vars, tool_vars>>

\* a caller evaluates resolve_backend(explicit_backend)
call_resolve_backend ==
    /\ e_backend = NoOutcome
    /\ e_backend' = resolve_backend(explicit_backend)
    /\ UNCHANGED <<explicit_backend, e_embeddings>>
    /\ UNCHANGED emb_frame

\* a caller evaluates resolve_embeddings(explicit_backend)
call_resolve_embeddings ==
    /\ e_embeddings = NoOutcome
    /\ e_embeddings' = resolve_embeddings(explicit_backend)
    /\ UNCHANGED <<explicit_backend, e_backend>>
    /\ UNCHANGED emb_frame

BackendArgs ==
    {None, Some(<<>>), Some(<<" ">>), Some(openai), Some(<<"G","o","o","g","l","e"," ">>),
     Some(fake), Some(<<"p","g">>)}

EmbeddingsProviderEnv ==
    {None, Some(<<>>), Some(<<" ","\t">>), Some(<<"O","P","E","N","A","I">>), Some(google),
     Some(<<"f","a","k","e","\n">>), Some(<<"p","g">>)}

FakeSizeEnv ==
    {None, Some(<<>>), Some(<<"8">>), Some(<<" ","1","6","\n">>), Some(<<"-","4">>),
     Some(<<"1","_","0">>), Some(<<"a","b","c">>), Some(<<"1",".","5">>), Some(<<"8","_">>)}

PresentOrAbsent == {None, Some(<<"s","k">>)}

InitEmb ==
    /\ \E p \in EmbeddingsProviderEnv, ko \in KeyValues, kg \in PresentOrAbsent,
          sz \in FakeSizeEnv :
         env = environ([EMBEDDINGS_PROVIDER |-> p, OPENAI_API_KEY |-> ko,
                        GOOGLE_API_KEY |-> kg, FAKE_EMBEDDING_SIZE |-> sz])
    /\ GoogleGenerativeAIEmbeddings \in BOOLEAN
    /\ ChatGoogleGenerativeAI = GoogleGenerativeAIEmbeddings
    /\ explicit_backend \in BackendArgs
    /\ e_backend = NoOutcome
    /\ e_embeddings = NoOutcome
    /\ llm_idle
    /\ search_idle
    /\ chat_idle
    /\ tool_idle

NextEmb == call_resolve_backend \/ call_resolve_embeddings

SpecEmb == InitEmb /\ [][NextEmb]_vars

-----------------------------------------------------------------------------
(* config.py: resolve_pgvector_url, resolve_collection_name *)

\* index of the first element of s that is in set, or 0
RECURSIVE find_first(_, _, _)
find_first(s, set, from) ==
    IF from > Len(s) THEN 0
    ELSE IF s[from] \in set THEN from ELSE find_first(s, set, from + 1)

\* index of the last element of s that is in set, or 0
RECURSIVE find_last(_, _, _)
find_last(s, set, from) ==
    IF from < 1 THEN 0
    ELSE IF s[from] \in set THEN from ELSE find_last(s, set, from - 1)

\* str.find(old): index of the first occurrence of old in s, or 0
RECURSIVE str_find(_, _, _)
str_find(s, old, from) ==
    IF from + Len(old) - 1 > Len(s) THEN 0
    ELSE IF SubSeq(s, from, from + Len(old) - 1) = old THEN from
         ELSE str_find(s, old, from + 1)

\* str.replace(old, new, 1)
replace_first(s, old, new) ==
    LET at == str_find(s, old, 1)
    IN IF at = 0 THEN s
       ELSE SubSeq(s, 1, at - 1) \o new \o SubSeq(s, at + Len(old), Len(s))

\* urllib.parse.urlsplit for URLs of the form scheme://netloc/rest
urlsplit(url) ==
    LET colon == find_first(url, {":"}, 1)
        has_netloc == /\ colon > 0
                      /\ SubSeq(url, colon + 1, colon + 2) = <<"/", "/">>
        after == IF has_netloc THEN SubSeq(url, colon + 3, Len(url))
                 ELSE SubSeq(url, colon + 1, Len(url))
        stop == find_first(after, {"/", "?", "#"}, 1)
        netloc == IF ~has_netloc THEN <<>>
                  ELSE IF stop = 0 THEN after ELSE SubSeq(after, 1, stop - 1)
        rest == IF ~has_netloc THEN after
                ELSE IF stop = 0 THEN <<>> ELSE SubSeq(after, stop, Len(after))
    IN [scheme |-> lower(SubSeq(url, 1, colon - 1)), netloc |-> netloc, rest |-> rest]

\* SplitResult.hostname: after the last "@", before the port, lower-cased; None if empty
hostname(netloc) ==
    LET at == find_last(netloc, {"@"}, Len(netloc))
        hostport == SubSeq(netloc, at + 1, Len(netloc))
        colon == find_first(hostport, {":"}, 1)
        host == IF colon = 0 THEN hostport ELSE SubSeq(hostport, 1, colon - 1)
    IN IF host = <<>> THEN None ELSE Some(lower(host))

\* urllib.parse.urlunsplit; an empty netloc is not written back for a scheme that is
\* not in urllib's uses_netloc list
urlunsplit(parsed) ==
    IF parsed.netloc # <<>> \/ SubSeq(parsed.rest, 1, 2) = <<"/", "/">>
    THEN parsed.scheme \o <<":", "/", "/">> \o parsed.netloc \o parsed.rest
    ELSE parsed.scheme \o <<":">> \o parsed.rest

\* config.py:72-91; gethostbyname_ok is whether socket.gethostbyname succeeds
resolve_pgvector_url(gethostbyname_ok) ==
    LET connection == get_env_value(<<"PGVECTOR_URL", "DATABASE_URL", "PG_VECTOR_URL">>, TRUE)
    IN IF connection.kind = "raise" THEN connection
       ELSE LET parsed == urlsplit(connection.value)
                host == hostname(parsed.netloc)
                fallback == getenv("PGVECTOR_FALLBACK_HOST")
            IN IF host = None \/ gethostbyname_ok
               THEN Return(urlunsplit(parsed))
               ELSE IF truthy(fallback)
                    THEN Return(urlunsplit(
                             [parsed EXCEPT !.netloc =
                                 replace_first(parsed.netloc, host[1], fallback[1])]))
                    ELSE Raise("OSError", "NetworkResolutionError")

\* config.py:94-95
resolve_collection_name ==
    get_env_value(<<"PGVECTOR_COLLECTION", "PG_VECTOR_COLLECTION_NAME">>, TRUE)

-----------------------------------------------------------------------------
(* search.py: search_similar_chunks, build_prompt *)

\* longest result list the store is taken to return
MaxResults == 2

\* page_content of the chunks the store may hold
ChunkTexts == { <<>>, <<" ", "\n">>, <<"a">>, <<" ", "b", " ">> }

\* search.py:60: up to k pairs; the score is not read by search_similar_chunks
RankedResults(limit) ==
    UNION { [1..n -> ChunkTexts] : n \in 0..(IF limit < MaxResults THEN limit ELSE MaxResults) }

\* "\n\n".join(parts)
RECURSIVE join(_)
join(parts) ==
    IF parts = <<>> THEN <<>>
    ELSE IF Len(parts) = 1 THEN parts[1]
         ELSE parts[1] \o <<"\n", "\n">> \o join(Tail(parts))

\* faulty variant: blank chunks are joined too
build_context_keep_blank(results) ==
    join([n \in 1..Len(results) |-> strip(results[n])])

\* search.py:61-63
build_context(results) ==
    join(SelectSeq([n \in 1..Len(results) |-> strip(results[n])], LAMBDA t : t # <<>>))

\* what a step of search_similar_chunks leaves alone
search_frame == <<env, ChatGoogleGenerativeAI, GoogleGenerativeAIEmbeddings, llm_vars,
                  emb_vars, chat_vars, tool_vars>>

\* the exception leaves search_similar_chunks
search_raise(exc) ==
    /\ s_out' = exc
    /\ s_pc' = "done"

\* faulty variant: only None is rejected, the empty string is searched for
search_check_query_accepts_empty ==
    /\ s_pc = "check"
    /\ s_pc' = "embeddings"
    /\ UNCHANGED <<query, k, s_provider, s_embeddings, calls, s_out>>
    /\ UNCHANGED search_frame

\* search.py:51-52
search_check_query ==
    /\ s_pc = "check"
    /\ IF query = <<>>
       THEN search_raise(Raise("ValueError", "EmptyQuery"))
       ELSE s_pc' = "embeddings" /\ UNCHANGED s_out
    /\ UNCHANGED <<query, k, s_provider, s_embeddings, calls>>
    /\ UNCHANGED search_frame

\* search.py:53
search_resolve_embeddings ==
    /\ s_pc = "embeddings"
    /\ calls' = Append(calls, "resolve_embeddings")
    /\ LET got == resolve_embeddings(s_provider)
       IN IF got.kind = "raise"
          THEN search_raise(got) /\ UNCHANGED s_embeddings
          ELSE s_embeddings' = got /\ s_pc' = "collection" /\ UNCHANGED s_out
    /\ UNCHANGED <<query, k, s_provider>>
    /\ UNCHANGED search_frame

\* search.py:56
search_resolve_collection_name ==
    /\ s_pc = "collection"
    /\ calls' = Append(calls, "resolve_collection_name")
    /\ IF resolve_collection_name.kind = "raise"
       THEN search_raise(resolve_collection_name)
       ELSE s_pc' = "connection" /\ UNCHANGED s_out
    /\ UNCHANGED <<query, k, s_provider, s_embeddings>>
    /\ UNCHANGED search_frame

\* search.py:57
search_resolve_pgvector_url ==
    /\ s_pc = "connection"
    /\ calls' = Append(calls, "resolve_pgvector_url")
    /\ \E gethostbyname_ok \in BOOLEAN :
         IF resolve_pgvector_url(gethostbyname_ok).kind = "raise"
         THEN search_raise(resolve_pgvector_url(gethostbyname_ok))
         ELSE s_pc' = "store" /\ UNCHANGED s_out
    /\ UNCHANGED <<query, k, s_provider, s_embeddings>>
    /\ UNCHANGED search_frame

\* search.py:54-59, the PGVector constructor connects to the store
search_pgvector ==
    /\ s_pc = "store"
    /\ calls' = Append(calls, "PGVector")
    /\ \/ search_raise(Raise("Exception", "StoreOperationError"))
       \/ s_pc' = "similarity" /\ UNCHANGED s_out
    /\ UNCHANGED <<query, k, s_provider, s_embeddings>>
    /\ UNCHANGED search_frame

\* search.py:60-64
search_similarity_search ==
    /\ s_pc = "similarity"
    /\ calls' = Append(calls, "similarity_search_with_score")
    /\ \/ search_raise(Raise("Exception", "StoreOperationError"))
       \/ \E results \in RankedResults(k) :
            /\ s_out' = Return([results |-> results,
                                context |-> build_context(results),
                                backend |-> s_embeddings.value.backend])
            /\ s_pc' = "done"
    /\ UNCHANGED <<query, k, s_provider, s_embeddings>>
    /\ UNCHANGED search_frame

search_similar_chunks ==
    \/ search_check_query
    \/ search_resolve_embeddings
    \/ search_resolve_collection_name
    \/ search_resolve_pgvector_url
    \/ search_pgvector
    \/ search_similarity_search

CHAT_DEFAULT_K == 10
SEARCH_DEFAULT_K == 5

pg_db == <<"p","g",":","/","/","d","b","/","x">>
pg_user_db == <<"p","g",":","/","/","d","b",":","p","w","@","d","b",":","5","/","x">>
pg_upper == <<"p","g",":","/","/","u","@","D","B","/","x">>
pg_nohost == <<"p","g",":","/","/","/","x">>

Queries == { <<>>, <<" ">>, <<"\n", "\t">>, <<"a">>, <<" ", "a", "?">> }

InitSearch ==
    /\ \E kg \in PresentOrAbsent, sz \in {None, Some(<<"a","b","c">>)},
          url \in {None, Some(pg_db), Some(pg_nohost)},
          dburl \in {None, Some(pg_user_db), Some(pg_upper)},
          fb \in {None, Some(<<"h">>)}, coll \in {None, Some(<<"c">>)} :
         env = environ([GOOGLE_API_KEY |-> kg, FAKE_EMBEDDING_SIZE |-> sz,
                        PGVECTOR_URL |-> url, DATABASE_URL |-> dburl,
                        PGVECTOR_FALLBACK_HOST |-> fb, PG_VECTOR_COLLECTION_NAME |-> coll])
    /\ GoogleGenerativeAIEmbeddings = TRUE
    /\ ChatGoogleGenerativeAI = TRUE
    /\ llm_idle
    /\ emb_idle
    /\ s_pc = "check"
    /\ query \in Queries
    /\ k \in {1, SEARCH_DEFAULT_K}
    /\ s_provider \in {None, Some(google), Some(<<"p","g">>)}
    /\ s_embeddings = NoOutcome
    /\ s_out = NoOutcome
    /\ calls = <<>>
    /\ chat_idle
    /\ tool_idle

NextSearch == search_similar_chunks

SpecSearch == InitSearch /\ [][NextSearch]_vars

-----------------------------------------------------------------------------
(* search.py: build_prompt; chat.py: _LocalEchoLLM, ChatBackend *)

\* The fixed texts are single elements of a string: the markers the offline backend
\* searches for, the placeholders of the template and the messages main prints.
CONTEXTO == "CONTEXTO:"
REGRAS == "REGRAS:"
PERGUNTA_DO_USUARIO == "PERGUNTA DO USUARIO:"

\* search.py:12-37
PROMPT_TEMPLATE ==
    << CONTEXTO, "\n", "{contexto}", "\n", "\n",
       REGRAS, "\n", "- Responda somente com base no CONTEXTO. (...)", "\n", "\n",
       "EXEMPLOS DE PERGUNTAS FORA DO ", CONTEXTO, "\n", "Pergunta: (...) Resposta: (...)",
       "\n", "\n",
       PERGUNTA_DO_USUARIO, "\n", "{pergunta}", "\n", "\n",
       "RESPONDA A 'PERGUNTA DO USUARIO'" >>

\* str.format(contexto=..., pergunta=...)
RECURSIVE format(_, _, _)
format(template, contexto, pergunta) ==
    IF template = <<>> THEN <<>>
    ELSE (CASE Head(template) = "{contexto}" -> contexto
            [] Head(template) = "{pergunta}" -> pergunta
            [] OTHER -> <<Head(template)>>)
         \o format(Tail(template), contexto, pergunta)

NOT_AVAILABLE == <<"N", "/", "A">>

\* search.py:67-68
build_prompt(question, context) ==
    format(PROMPT_TEMPLATE, IF context # <<>> THEN context ELSE NOT_AVAILABLE, question)

\* chat.py:20
DEFAULT_OUT_OF_CONTEXT ==
    << "Nao tenho informacoes necessarias para responder sua pergunta." >>

\* text.split(sep, 1)[-1]
split_last(text, sep) ==
    LET at == find_first(text, {sep}, 1)
    IN IF at = 0 THEN text ELSE SubSeq(text, at + 1, Len(text))

\* text.split(sep, 1)[0]
split_first(text, sep) ==
    LET at == find_first(text, {sep}, 1)
    IN IF at = 0 THEN text ELSE SubSeq(text, 1, at - 1)

\* text.partition(sep)[2]
partition_tail(text, sep) ==
    LET at == find_first(text, {sep}, 1)
    IN IF at = 0 THEN <<>> ELSE SubSeq(text, at + 1, Len(text))

PREVIEW_LENGTH == 180

\* faulty variant: only the empty context section is taken as out of context
local_echo_invoke_empty_only(text) ==
    LET context_section == strip(split_first(split_last(text, CONTEXTO), REGRAS))
        tail == partition_tail(text, PERGUNTA_DO_USUARIO)
        question == IF tail # <<>> THEN split_first(strip(tail), "\n") ELSE <<>>
    IN IF context_section = <<>>
       THEN Return([is_str |-> TRUE, text |-> DEFAULT_OUT_OF_CONTEXT])
       ELSE IF tail # <<>> /\ strip(tail) = <<>>
            THEN Raise("IndexError", "list index out of range")
            ELSE Return([is_str |-> TRUE,
                         text |-> strip(<<"(Simulacao offline) ">>
                                        \o (IF question # <<>> THEN question
                                            ELSE <<"Pergunta nao informada.">>)
                                        \o <<" | Contexto: ">> \o context_section
                                        \o <<"...">>)])

\* chat.py:49-57
local_echo_invoke(text) ==
    LET context_section == strip(split_first(split_last(text, CONTEXTO), REGRAS))
        tail == partition_tail(text, PERGUNTA_DO_USUARIO)
        question == IF tail # <<>> THEN split_first(strip(tail), "\n") ELSE <<>>
        cut == SubSeq(context_section, 1,
                      IF Len(context_section) < PREVIEW_LENGTH
                      THEN Len(context_section) ELSE PREVIEW_LENGTH)
        preview == [n \in 1..Len(cut) |-> IF cut[n] = "\n" THEN " " ELSE cut[n]]
    IN IF context_section \in {<<>>, NOT_AVAILABLE}
       THEN Return([is_str |-> TRUE, text |-> DEFAULT_OUT_OF_CONTEXT])
       ELSE IF tail # <<>> /\ strip(tail) = <<>>
            THEN Raise("IndexError", "list index out of range")
            ELSE Return([is_str |-> TRUE,
                         text |-> strip(<<"(Simulacao offline) ">>
                                        \o (IF question # <<>> THEN question
                                            ELSE <<"Pergunta nao informada.">>)
                                        \o <<" | Contexto: ">> \o preview \o <<"...">>)])

\* what a cloud client may answer: an error, a text, or a content that is not a string
CloudResponses ==
    { Raise("Exception", "ProviderError"),
      Return([is_str |-> TRUE, text |-> <<" ", "o", "k", "\n">>]),
      Return([is_str |-> TRUE, text |-> DEFAULT_OUT_OF_CONTEXT]),
      Return([is_str |-> FALSE, text |-> <<>>]) }

\* chat.py:36-42: the AIMessage of the client is passed on
backend_invoke(backend, text) ==
    IF backend.client = "_LocalEchoLLM" THEN {local_echo_invoke(text)} ELSE CloudResponses

-----------------------------------------------------------------------------
(* chat.py: handle_question, main *)

\* input lines the model reads at most
MaxLines == 2

BANNER == << "Assistente iniciado. Digite sua pergunta ou '/exit' para sair." >>
FAREWELL == << "Encerrando. Ate logo!" >>
FAREWELL_AFTER_SIGNAL == << "\n", "Encerrando. Ate logo!" >>
GENERIC_FAILURE == << "Assistente> Ocorreu um erro ao processar sua pergunta." >>
ANSWER_PREFIX == << "Assistente> " >>

\* chat.py:171
QuitTokens ==
    { <<"/","e","x","i","t">>, <<"s","a","i","r">>, <<"e","x","i","t">>, <<"q","u","i","t">> }

\* what input() may return
Lines ==
    { <<>>, <<" ", "\t">>, <<"/","e","x","i","t">>, <<"/","E","X","I","T"," ">>,
      <<" ","S","a","i","r">>, <<"Q","U","I","T">>, <<"e","x","i","t">>,
      <<"h","i","?">>, <<" ","e","x","i","t"," ","n","o","w">> }

\* what a step of main or handle_question leaves alone
chat_frame == <<env, ChatGoogleGenerativeAI, GoogleGenerativeAIEmbeddings, emb_vars,
                tool_vars>>

\* chat.py:150-156, up to the call of resolve_llm; an unsupported EMBEDDINGS_PROVIDER
\* leaves main as an uncaught ValueError
main_start ==
    /\ m_pc = "start"
    /\ LET resolved == IF truthy(args.embedding_provider)
                       THEN Return(args.embedding_provider[1])
                       ELSE resolve_backend(None)
       IN IF resolved.kind = "raise"
          THEN /\ m_pc' = "crashed"
               /\ exit_status' = "1"
               /\ UNCHANGED <<embedding_provider, llm_vars>>
          ELSE /\ embedding_provider' = resolved.value
               /\ m_pc' = "resolve_llm"
               /\ preferred_provider' = args.llm_provider
               /\ model_override' = args.llm_model
               /\ l_pc' = "candidates"
               /\ UNCHANGED <<exit_status, normalized, l_i, errors, attempts, l_out>>
    /\ UNCHANGED <<args, llm_backend, line, user_input, lines_read, prompt, h_out, stdout>>
    /\ UNCHANGED <<search_vars, chat_frame>>

\* chat.py:155-161
main_llm_resolved ==
    /\ m_pc = "resolve_llm"
    /\ l_pc = "done"
    /\ IF l_out.kind = "raise"
       THEN /\ exit_status' = "1"
            /\ m_pc' = "exited"
            /\ UNCHANGED <<llm_backend, stdout>>
       ELSE /\ llm_backend' = l_out
            /\ stdout' = Append(stdout, BANNER)
            /\ m_pc' = "input"
            /\ UNCHANGED exit_status
    /\ UNCHANGED <<args, embedding_provider, line, user_input, lines_read, prompt, h_out>>
    /\ UNCHANGED <<llm_vars, search_vars, chat_frame>>

\* the call handle_question(user_input, ...) enters search_similar_chunks, chat.py:133
begin_search(text) ==
    /\ s_pc' = "check"
    /\ query' = text
    /\ k' = args.k
    /\ s_provider' = Some(embedding_provider)
    /\ UNCHANGED <<s_embeddings, s_out>>

\* faulty variant: the line is compared with the quit tokens as typed
main_input_case_sensitive ==
    /\ m_pc = "input"
    /\ lines_read < MaxLines
    /\ \E text \in Lines :
         /\ line' = text
         /\ user_input' = strip(text)
         /\ lines_read' = lines_read + 1
         /\ calls' = <<>>
         /\ IF strip(text) = <<>>
            THEN UNCHANGED <<m_pc, stdout, exit_status, s_pc, query, k, s_provider,
                             s_embeddings, s_out>>
            ELSE IF strip(text) \in QuitTokens
                 THEN /\ stdout' = Append(stdout, FAREWELL)
                      /\ m_pc' = "terminated"
                      /\ exit_status' = "0"
                      /\ UNCHANGED <<s_pc, query, k, s_provider, s_embeddings, s_out>>
                 ELSE /\ m_pc' = "turn"
                      /\ begin_search(strip(text))
                      /\ UNCHANGED <<stdout, exit_status>>
    /\ UNCHANGED <<args, embedding_provider, llm_backend, prompt, h_out>>
    /\ UNCHANGED <<llm_vars, chat_frame>>

\* chat.py:162-181, input() returns a line
main_input ==
    /\ m_pc = "input"
    /\ lines_read < MaxLines
    /\ \E text \in Lines :
         /\ line' = text
         /\ user_input' = strip(text)
         /\ lines_read' = lines_read + 1
         /\ calls' = <<>>
         /\ IF strip(text) = <<>>
            THEN UNCHANGED <<m_pc, stdout, exit_status, s_pc, query, k, s_provider,
                             s_embeddings, s_out>>
            ELSE IF lower(strip(text)) \in QuitTokens
                 THEN /\ stdout' = Append(stdout, FAREWELL)
                      /\ m_pc' = "terminated"
                      /\ exit_status' = "0"
                      /\ UNCHANGED <<s_pc, query, k, s_provider, s_embeddings, s_out>>
                 ELSE /\ m_pc' = "turn"
                      /\ begin_search(strip(text))
                      /\ UNCHANGED <<stdout, exit_status>>
    /\ UNCHANGED <<args, embedding_provider, llm_backend, prompt, h_out>>
    /\ UNCHANGED <<llm_vars, chat_frame>>

\* chat.py:163-167, input() raises EOFError or KeyboardInterrupt
main_input_signal ==
    /\ m_pc = "input"
    /\ stdout' = Append(stdout, FAREWELL_AFTER_SIGNAL)
    /\ m_pc' = "terminated"
    /\ exit_status' = "0"
    /\ UNCHANGED <<args, embedding_provider, llm_backend, line, user_input, lines_read,
                   prompt, h_out>>
    /\ UNCHANGED <<llm_vars, search_vars, chat_frame>>

\* faulty variant: the prompt is built and sent whatever the context is
handle_question_context_always_asks ==
    /\ m_pc = "turn"
    /\ s_pc = "done"
    /\ IF s_out.kind = "raise"
       THEN /\ h_out' = s_out
            /\ m_pc' = "print"
            /\ UNCHANGED <<prompt, calls>>
       ELSE /\ prompt' = build_prompt(user_input, s_out.value.context)
            /\ calls' = Append(calls, "build_prompt")
            /\ m_pc' = "invoke"
            /\ UNCHANGED h_out
    /\ UNCHANGED <<args, embedding_provider, llm_backend, line, user_input, lines_read,
                   stdout, exit_status>>
    /\ UNCHANGED <<s_pc, query, k, s_provider, s_embeddings, s_out>>
    /\ UNCHANGED <<llm_vars, chat_frame>>

\* chat.py:133-145, after search_similar_chunks has ended
handle_question_context ==
    /\ m_pc = "turn"
    /\ s_pc = "done"
    /\ IF s_out.kind = "raise"
       THEN /\ h_out' = s_out
            /\ m_pc' = "print"
            /\ UNCHANGED <<prompt, calls>>
       ELSE IF s_out.value.context = <<>>
            THEN /\ h_out' = Return(DEFAULT_OUT_OF_CONTEXT)
                 /\ m_pc' = "print"
                 /\ UNCHANGED <<prompt, calls>>
            ELSE /\ prompt' = build_prompt(user_input, s_out.value.context)
                 /\ calls' = Append(calls, "build_prompt")
                 /\ m_pc' = "invoke"
                 /\ UNCHANGED h_out
    /\ UNCHANGED <<args, embedding_provider, llm_backend, line, user_input, lines_read,
                   stdout, exit_status>>
    /\ UNCHANGED <<s_pc, query, k, s_provider, s_embeddings, s_out>>
    /\ UNCHANGED <<llm_vars, chat_frame>>

\* chat.py:146-147
handle_question_invoke ==
    /\ m_pc = "invoke"
    /\ calls' = Append(calls, "invoke")
    /\ \E response \in backend_invoke(llm_backend, prompt) :
         h_out' = IF response.kind = "raise" THEN response
                  ELSE IF ~response.value.is_str
                       THEN Raise("AttributeError", "strip")
                       ELSE Return(strip(response.value.text))
    /\ m_pc' = "print"
    /\ UNCHANGED <<args, embedding_provider, llm_backend, line, user_input, lines_read,
                   prompt, stdout, exit_status>>
    /\ UNCHANGED <<s_pc, query, k, s_provider, s_embeddings, s_out>>
    /\ UNCHANGED <<llm_vars, chat_frame>>

\* the locals of handle_question and search_similar_chunks are gone
end_turn ==
    /\ prompt' = <<>>
    /\ h_out' = NoOutcome
    /\ s_pc' = "idle"
    /\ query' = <<>>
    /\ k' = 0
    /\ s_provider' = None
    /\ s_embeddings' = NoOutcome
    /\ s_out' = NoOutcome
    /\ calls' = <<>>

\* faulty variant: an error of the turn ends the process
main_print_exits_on_error ==
    /\ m_pc = "print"
    /\ IF h_out.kind = "raise"
       THEN /\ stdout' = Append(stdout, GENERIC_FAILURE)
            /\ m_pc' = "exited"
            /\ exit_status' = "1"
       ELSE /\ stdout' = Append(stdout, ANSWER_PREFIX \o h_out.value)
            /\ m_pc' = "input"
            /\ UNCHANGED exit_status
    /\ end_turn
    /\ UNCHANGED <<args, embedding_provider, llm_backend, line, user_input, lines_read>>
    /\ UNCHANGED <<llm_vars, chat_frame>>

\* faulty variant: the backend is resolved again after every turn
main_print_resolves_again ==
    /\ m_pc = "print"
    /\ stdout' = Append(stdout, IF h_out.kind = "raise" THEN GENERIC_FAILURE
                                ELSE ANSWER_PREFIX \o h_out.value)
    /\ m_pc' = "resolve_llm"
    /\ l_pc' = "candidates"
    /\ end_turn
    /\ UNCHANGED <<args, embedding_provider, llm_backend, line, user_input, lines_read,
                   exit_status>>
    /\ UNCHANGED <<preferred_provider, model_override, normalized, l_i, errors, attempts,
                   l_out>>
    /\ UNCHANGED chat_frame

\* chat.py:182-187
main_print ==
    /\ m_pc = "print"
    /\ stdout' = Append(stdout, IF h_out.kind = "raise" THEN GENERIC_FAILURE
                                ELSE ANSWER_PREFIX \o h_out.value)
    /\ m_pc' = "input"
    /\ end_turn
    /\ UNCHANGED <<args, embedding_provider, llm_backend, line, user_input, lines_read,
                   exit_status>>
    /\ UNCHANGED <<llm_vars, chat_frame>>

\* faulty variant: the handler of the turn also catches the interrupt, says goodbye
\* and terminates the loop
main_interrupted_in_turn_caught ==
    /\ m_pc \in {"turn", "invoke", "print"}
    /\ m_pc' = "terminated"
    /\ exit_status' = "0"
    /\ stdout' = Append(stdout, FAREWELL_AFTER_SIGNAL)
    /\ end_turn
    /\ UNCHANGED <<args, embedding_provider, llm_backend, line, user_input, lines_read>>
    /\ UNCHANGED <<llm_vars, chat_frame>>

\* KeyboardInterrupt while handle_question runs: `except Exception` (chat.py:182) does
\* not catch it, the stack is unwound and it leaves main
main_interrupted_in_turn ==
    /\ m_pc \in {"turn", "invoke", "print"}
    /\ m_pc' = "interrupted"
    /\ exit_status' = "KeyboardInterrupt"
    /\ end_turn
    /\ UNCHANGED <<args, embedding_provider, llm_backend, line, user_input, lines_read,
                   stdout>>
    /\ UNCHANGED <<llm_vars, chat_frame>>

main ==
    \/ main_start
    \/ main_llm_resolved
    \/ main_input
    \/ main_input_signal
    \/ handle_question_context
    \/ handle_question_invoke
    \/ main_print
    \/ main_interrupted_in_turn

ChatEnvironments ==
    { [OPENAI_API_KEY |-> Some(<<"s","k">>), PGVECTOR_URL |-> Some(pg_db),
       PGVECTOR_COLLECTION |-> Some(<<"c">>)],
      [LLM_PROVIDER |-> Some(<<"a","z","u","r","e">>), PGVECTOR_URL |-> Some(pg_db),
       PGVECTOR_COLLECTION |-> Some(<<"c">>)],
      [GOOGLE_API_KEY |-> Some(<<"s","k">>), DATABASE_URL |-> Some(pg_user_db),
       PGVECTOR_FALLBACK_HOST |-> Some(<<"h">>)],
      [EMBEDDINGS_PROVIDER |-> Some(<<"p","g">>), LLM_PROVIDER |-> Some(fake)] }

ChatArgs ==
    { [k |-> CHAT_DEFAULT_K, embedding_provider |-> None, llm_provider |-> None,
       llm_model |-> None],
      [k |-> 1, embedding_provider |-> Some(fake), llm_provider |-> Some(openai),
       llm_model |-> Some(<<"m","1">>)],
      [k |-> CHAT_DEFAULT_K, embedding_provider |-> Some(openai),
       llm_provider |-> Some(fake), llm_model |-> None] }

InitChat ==
    /\ \E e \in ChatEnvironments : env = environ(e)
    /\ ChatGoogleGenerativeAI \in BOOLEAN
    /\ GoogleGenerativeAIEmbeddings = ChatGoogleGenerativeAI
    /\ llm_idle
    /\ emb_idle
    /\ search_idle
    /\ args \in ChatArgs
    /\ m_pc = "start"
    /\ embedding_provider = <<>>
    /\ llm_backend = NoOutcome
    /\ line = <<>>
    /\ user_input = <<>>
    /\ lines_read = 0
    /\ prompt = <<>>
    /\ h_out = NoOutcome
    /\ stdout = <<>>
    /\ exit_status = "running"
    /\ tool_idle

\* inside main, resolve_llm and search_similar_chunks run when main has called them
NextChat == main \/ resolve_llm \/ search_similar_chunks

SpecChat == InitChat /\ [][NextChat]_vars

-----------------------------------------------------------------------------
(* ingest_pdf and ingest_documents, ingest.py:59-90 and 134-140 *)

\* what a step of the ingestion leaves alone
ingest_frame == <<env, ChatGoogleGenerativeAI, GoogleGenerativeAIEmbeddings, llm_vars,
                  emb_vars, search_vars, chat_vars, url_vars, echo_vars>>

\* f"{i}" for a non-negative int: its decimal digits, most significant first
RECURSIVE format_int(_)
format_int(n) ==
    IF n < Len(DigitChars) THEN <<DigitChars[n + 1]>>
    ELSE format_int(n \div Len(DigitChars)) \o <<DigitChars[(n % Len(DigitChars)) + 1]>>

DOC_PREFIX == <<"d","o","c","-">>

\* faulty variant: the identifiers continue after the rows the collection holds
doc_ids_after_rows(docs) ==
    [i \in 1..Len(docs) |-> DOC_PREFIX \o format_int(Len(store.rows) + i - 1)]

\* faulty variant: the identifiers are numbered modulo ten
doc_ids_one_digit(docs) ==
    [i \in 1..Len(docs) |-> DOC_PREFIX \o <<DigitChars[((i - 1) % Len(DigitChars)) + 1]>>]

\* ingest.py:88, ids = [f"doc-{i}" for i in range(len(documents))]
doc_ids(docs) == [i \in 1..Len(docs) |-> DOC_PREFIX \o format_int(i - 1)]

ALREADY_EXISTS == <<"a","l","r","e","a","d","y"," ","e","x","i","s","t","s">>

\* ingest.py:84, "already exists" in str(exc).lower()
says_already_exists(message) == str_find(lower(message), ALREADY_EXISTS, 1) # 0

\* messages of the exceptions the store raises
DUPLICATE_COLLECTION ==
    <<"C","o","l","l","e","c","t","i","o","n"," ","A","l","r","e","a","d","y"," ",
      "E","x","i","s","t","s">>
CONNECTION_REFUSED == <<"c","o","n","n","e","c","t","i","o","n"," ","r","e","f","u","s","e","d">>
ALREADY_CLOSED == <<"a","l","r","e","a","d","y"," ","c","l","o","s","e","d">>

\* the store writes each document under its id; a row with that id is replaced
RECURSIVE add_documents(_, _, _)
add_documents(rows, docs, doc_id) ==
    IF docs = <<>> THEN rows
    ELSE add_documents(dict_set(rows, Head(doc_id), Head(docs)), Tail(docs), Tail(doc_id))

\* record of one store call of the run
StoreCall(op, outcome) == [op |-> op, outcome |-> outcome]

\* the run ends: ingest_documents returns or raises
ingest_end(outcome) ==
    /\ i_out' = outcome
    /\ i_pc' = "done"

MaxDocs == 11
MaxRuns == 2

\* numbers of chunks load_documents yields; it raises when there is none
\* (ingest.py:53-55)
BatchSizes == {1, 2, 3, MaxDocs - 1, MaxDocs}

RunTags == <<"a", "b", "c", "d">>

\* the chunks of one run, told apart from those of the other runs by their text
batch(n, tag) ==
    [i \in 1..n |-> [page_content |-> <<tag>> \o format_int(i),
                     metadata |-> <<[key |-> "page", value |-> i]>>]]

\* ingest.py:134-140 and 93-114, ingest_pdf up to the call of ingest_documents
ingest_pdf ==
    /\ i_pc \in {"start", "done"}
    /\ runs < MaxRuns
    /\ \E append \in BOOLEAN, n \in BatchSizes :
         /\ i_args' = [append |-> append]
         /\ reset_collection' = ~append
         /\ documents' = batch(n, RunTags[runs + 1])
    /\ runs' = runs + 1
    /\ rows_before' = store.rows
    /\ previous_out' = i_out
    /\ i_out' = NoOutcome
    /\ ids' = <<>>
    /\ store_calls' = <<>>
    /\ i_pc' = "construct"
    /\ UNCHANGED store
    /\ UNCHANGED ingest_frame

\* faulty variant: the collection is dropped on every run
ingest_construct_always_resets ==
    /\ i_pc = "construct"
    /\ \/ i_pc' = "delete" /\ UNCHANGED i_out
       \/ ingest_end(Raise("OperationalError", CONNECTION_REFUSED))
    /\ UNCHANGED <<i_args, documents, reset_collection, ids, store, store_calls, runs,
                   rows_before, previous_out>>
    /\ UNCHANGED ingest_frame

\* ingest.py:67-74, PGVector(...) connects to the database, then the reset test
ingest_construct ==
    /\ i_pc = "construct"
    /\ \/ /\ i_pc' = IF reset_collection THEN "delete" ELSE "create"
          /\ UNCHANGED i_out
       \/ ingest_end(Raise("OperationalError", CONNECTION_REFUSED))
    /\ UNCHANGED <<i_args, documents, reset_collection, ids, store, store_calls, runs,
                   rows_before, previous_out>>
    /\ UNCHANGED ingest_frame

\* ingest.py:75-79, store.delete_collection inside try / except Exception
ingest_delete_collection ==
    /\ i_pc = "delete"
    /\ \/ /\ store' = [exists |-> FALSE, rows |-> <<>>]
          /\ store_calls' = Append(store_calls, StoreCall("delete_collection", Return(<<>>)))
       \/ \E message \in {CONNECTION_REFUSED, ALREADY_CLOSED} :
            /\ store' = store
            /\ store_calls' = Append(store_calls,
                                     StoreCall("delete_collection",
                                               Raise("OperationalError", message)))
    /\ i_pc' = "create"
    /\ UNCHANGED <<i_args, documents, reset_collection, ids, i_out, runs, rows_before,
                   previous_out>>
    /\ UNCHANGED ingest_frame

\* faulty variant: every failure of create_collection is tolerated
ingest_create_collection_tolerant ==
    /\ i_pc = "create"
    /\ \/ /\ store' = [store EXCEPT !.exists = TRUE]
          /\ store_calls' = Append(store_calls, StoreCall("create_collection", Return(<<>>)))
       \/ \E message \in {DUPLICATE_COLLECTION, CONNECTION_REFUSED, ALREADY_CLOSED} :
            /\ message = DUPLICATE_COLLECTION => store.exists
            /\ store' = store
            /\ store_calls' = Append(store_calls,
                                     StoreCall("create_collection",
                                               Raise("ProgrammingError", message)))
    /\ i_pc' = "add"
    /\ UNCHANGED <<i_args, documents, reset_collection, ids, i_out, runs, rows_before,
                   previous_out>>
    /\ UNCHANGED ingest_frame

\* ingest.py:81-86, store.create_collection; the exception is raised again unless
\* its message says "already exists"
ingest_create_collection ==
    /\ i_pc = "create"
    /\ \/ /\ store' = [store EXCEPT !.exists = TRUE]
          /\ store_calls' = Append(store_calls, StoreCall("create_collection", Return(<<>>)))
          /\ i_pc' = "add"
          /\ UNCHANGED i_out
       \/ \E message \in {DUPLICATE_COLLECTION, CONNECTION_REFUSED, ALREADY_CLOSED} :
            /\ message = DUPLICATE_COLLECTION => store.exists
            /\ store' = store
            /\ store_calls' = Append(store_calls,
                                     StoreCall("create_collection",
                                               Raise("ProgrammingError", message)))
            /\ IF says_already_exists(message)
               THEN i_pc' = "add" /\ UNCHANGED i_out
               ELSE ingest_end(Raise("ProgrammingError", message))
    /\ UNCHANGED <<i_args, documents, reset_collection, ids, runs, rows_before,
                   previous_out>>
    /\ UNCHANGED ingest_frame

\* ingest.py:88-90, the ids, store.add_documents and the count returned
ingest_add_documents ==
    /\ i_pc = "add"
    /\ ids' = doc_ids(documents)
    /\ \/ /\ store.exists
          /\ store' = [store EXCEPT !.rows = add_documents(store.rows, documents, ids')]
          /\ store_calls' = Append(store_calls,
                                   StoreCall("add_documents",
                                             Return([documents |-> documents, ids |-> ids'])))
          /\ ingest_end(Return(Len(ids')))
       \/ /\ store' = store
          /\ store_calls' = Append(store_calls,
                                   StoreCall("add_documents",
                                             Raise("OperationalError", CONNECTION_REFUSED)))
          /\ ingest_end(Raise("OperationalError", CONNECTION_REFUSED))
    /\ UNCHANGED <<i_args, documents, reset_collection, runs, rows_before, previous_out>>
    /\ UNCHANGED ingest_frame

ingest_documents ==
    \/ ingest_construct
    \/ ingest_delete_collection
    \/ ingest_create_collection
    \/ ingest_add_documents

InitIngest ==
    /\ env = environ(<<>>)
    /\ ChatGoogleGenerativeAI = TRUE
    /\ GoogleGenerativeAIEmbeddings = TRUE
    /\ llm_idle
    /\ emb_idle
    /\ search_idle
    /\ chat_idle
    /\ url_idle
    /\ echo_idle
    /\ i_args = [append |-> FALSE]
    /\ i_pc = "start"
    /\ documents = <<>>
    /\ reset_collection = FALSE
    /\ ids = <<>>
    /\ i_out = NoOutcome
    /\ store \in {[exists |-> FALSE, rows |-> <<>>], [exists |-> TRUE, rows |-> <<>>]}
    /\ store_calls = <<>>
    /\ runs = 0
    /\ rows_before = <<>>
    /\ previous_out = NoOutcome

NextIngest == ingest_pdf \/ ingest_documents

SpecIngest == InitIngest /\ [][NextIngest]_vars

-----------------------------------------------------------------------------
(* one call of resolve_pgvector_url, config.py:72-91 *)

\* config.py:79-88, LOGGER.warning is reached when the lookup failed and a fallback
\* host is set
resolve_pgvector_url_warns(gethostbyname_ok) ==
    LET connection == get_env_value(<<"PGVECTOR_URL", "DATABASE_URL", "PG_VECTOR_URL">>, TRUE)
    IN /\ connection.kind = "return"
       /\ hostname(urlsplit(connection.value).netloc) # None
       /\ ~gethostbyname_ok
       /\ truthy(getenv("PGVECTOR_FALLBACK_HOST"))

call_resolve_pgvector_url ==
    /\ u_pc = "call"
    /\ \E gethostbyname_ok \in BOOLEAN :
         /\ u_dns' = gethostbyname_ok
         /\ u_out' = resolve_pgvector_url(gethostbyname_ok)
         /\ u_log' = IF resolve_pgvector_url_warns(gethostbyname_ok)
                     THEN Append(u_log, "WARNING") ELSE u_log
    /\ u_pc' = "done"
    /\ UNCHANGED <<env, ChatGoogleGenerativeAI, GoogleGenerativeAIEmbeddings, llm_vars,
                   emb_vars, search_vars, chat_vars, ingest_vars, echo_vars>>

pg_query == <<"p","g",":","/","/","u",":","p","w","@","d","b",":","5","/","x","?","s","=","d","b">>

InitUrl ==
    /\ \E url \in {None, Some(pg_db), Some(pg_nohost), Some(pg_user_db), Some(pg_upper),
                   Some(pg_query)},
          dburl \in {None, Some(pg_db)}, pgurl \in {None, Some(pg_upper)},
          fb \in {None, Some(<<>>), Some(<<"h">>)} :
         env = environ([PGVECTOR_URL |-> url, DATABASE_URL |-> dburl,
                        PG_VECTOR_URL |-> pgurl, PGVECTOR_FALLBACK_HOST |-> fb])
    /\ ChatGoogleGenerativeAI = TRUE
    /\ GoogleGenerativeAIEmbeddings = TRUE
    /\ llm_idle
    /\ emb_idle
    /\ search_idle
    /\ chat_idle
    /\ ingest_idle
    /\ echo_idle
    /\ u_pc = "call"
    /\ u_dns = FALSE
    /\ u_out = NoOutcome
    /\ u_log = <<>>

NextUrl == call_resolve_pgvector_url

SpecUrl == InitUrl /\ [][NextUrl]_vars

-----------------------------------------------------------------------------
(* build_prompt followed by _LocalEchoLLM.invoke, search.py:67-68 and chat.py:45-57 *)

\* questions and contexts, some of them holding the headings of the template
Questions ==
    { <<>>, <<" ">>, <<"a", "?">>, <<"\n", "q">>, NOT_AVAILABLE, <<CONTEXTO, "x">>,
      <<REGRAS>>, <<PERGUNTA_DO_USUARIO, "\n">>, <<"q", CONTEXTO, "\n", REGRAS>>,
      <<"q", "\n", "\n", CONTEXTO, "\n", "z", "\n", REGRAS>> }

Contexts ==
    { <<>>, NOT_AVAILABLE, <<" ">>, <<" ", "N", "/", "A", "\n">>, <<"n", "/", "a">>,
      <<"a">>, <<"a", "\n", "\n", "b">>, <<REGRAS, "x">>, <<"x", CONTEXTO, "N", "/", "A">> }

echo_frame == <<env, ChatGoogleGenerativeAI, GoogleGenerativeAIEmbeddings, llm_vars,
                emb_vars, search_vars, chat_vars, ingest_vars, url_vars>>

echo_build_prompt ==
    /\ p_pc = "build"
    /\ p_prompt' = build_prompt(p_question, p_context)
    /\ p_pc' = "invoke"
    /\ UNCHANGED <<p_question, p_context, p_out>>
    /\ UNCHANGED echo_frame

echo_invoke ==
    /\ p_pc = "invoke"
    /\ p_out' = local_echo_invoke(p_prompt)
    /\ p_pc' = "done"
    /\ UNCHANGED <<p_question, p_context, p_prompt>>
    /\ UNCHANGED echo_frame

InitEcho ==
    /\ env = environ(<<>>)
    /\ ChatGoogleGenerativeAI = TRUE
    /\ GoogleGenerativeAIEmbeddings = TRUE
    /\ llm_idle
    /\ emb_idle
    /\ search_idle
    /\ chat_idle
    /\ ingest_idle
    /\ url_idle
    /\ p_pc = "build"
    /\ p_question \in Questions
    /\ p_context \in Contexts
    /\ p_prompt = <<>>
    /\ p_out = NoOutcome

NextEcho == echo_build_prompt \/ echo_invoke

SpecEcho == InitEcho /\ [][NextEcho]_vars

-----------------------------------------------------------------------------
(* Properties of resolve_llm *)

\* construction of a backend for provider p succeeds in this environment
can_construct(p) ==
    \/ p = openai /\ truthy(env["OPENAI_API_KEY"])
    \/ p = google /\ truthy(env["GOOGLE_API_KEY"]) /\ ChatGoogleGenerativeAI
    \/ p = fake

\* the reason a failed construction of provider p must record
expected_reason(p) ==
    CASE p = openai -> "OPENAI_API_KEY ausente"
      [] p = google -> IF ~truthy(env["GOOGLE_API_KEY"])
                       THEN "GOOGLE_API_KEY ausente"
                       ELSE "pacote langchain-google-genai nao instalado"
      [] OTHER -> "provedor desconhecido"

\* C1: candidates are attempted strictly in list order, each at most once; every
\* attempted candidate before the returned one cannot be constructed and has a
\* recorded reason; the backend returned is that of the first candidate whose
\* construction succeeds, and it is the last one attempted.
C1_FirstSuccessInListOrder ==
    /\ Len(attempts) <= Len(normalized)
    /\ \A j \in 1..Len(attempts) : attempts[j] = j
    /\ \A j \in 1..Len(attempts) :
         (j < Len(attempts) \/ l_out.kind # "return")
            => /\ ~can_construct(normalized[j])
               /\ dict_has(errors, normalized[j])
    /\ l_out.kind = "return"
         => /\ attempts # <<>>
            /\ l_i = Len(attempts)
            /\ can_construct(normalized[l_i])
            /\ l_out.provider = normalized[l_i]

\* C1 witness: a backend is returned after three candidates failed
C1_Witness ==
    /\ l_out.kind = "return"
    /\ Len(attempts) = 4
    /\ Len(errors) = 3

\* the preferred provider is a cloud provider whose credential is absent
preferred_lacks_credential ==
    /\ truthy(preferred_provider)
    /\ \/ lower(preferred_provider[1]) = openai /\ ~truthy(env["OPENAI_API_KEY"])
       \/ lower(preferred_provider[1]) = google /\ ~truthy(env["GOOGLE_API_KEY"])

\* C2 as stated: with a preferred provider whose credential is absent, resolve_llm
\* returns the offline echo backend and the diagnostics hold exactly one entry,
\* keyed by the preferred provider.
C2_FallsBackToOffline ==
    (l_pc = "done" /\ preferred_lacks_credential)
       => /\ l_out.kind = "return"
          /\ l_out.provider = fake
          /\ dict_keys(errors) = {lower(preferred_provider[1])}

\* C2 amended: with a preferred provider whose credential is absent, resolve_llm
\* raises the initialization error (no fallback), and the diagnostics it carries
\* hold exactly one entry, keyed by the preferred provider.
C2_FailsWithOneDiagnostic ==
    (l_pc = "done" /\ preferred_lacks_credential)
       => /\ l_out.kind = "raise"
          /\ Len(l_out.details) = 1
          /\ l_out.details[1].key = lower(preferred_provider[1])
          /\ l_out.details[1].value = expected_reason(lower(preferred_provider[1]))

\* C2 witness: resolve_llm ended for a preferred google whose key is absent
C2_Witness ==
    /\ l_pc = "done"
    /\ preferred_lacks_credential
    /\ lower(preferred_provider[1]) = google
    /\ truthy(env["OPENAI_API_KEY"])

\* C3: with a preferred provider the candidate list is that provider alone, and no
\* other provider is attempted, recorded or returned, whatever the environment holds.
C3_OnlyPreferredTried ==
    (truthy(preferred_provider) /\ l_pc # "candidates")
       => /\ normalized = << lower(preferred_provider[1]) >>
          /\ \A j \in 1..Len(attempts) : normalized[attempts[j]] = lower(preferred_provider[1])
          /\ dict_keys(errors) \subseteq {lower(preferred_provider[1])}
          /\ l_out.kind = "return" => l_out.provider = lower(preferred_provider[1])

\* C3 witness: the preferred provider is returned although the environment names
\* another provider whose credential is present
C3_Witness ==
    /\ truthy(preferred_provider)
    /\ l_out.kind = "return"
    /\ l_out.provider = google
    /\ truthy(env["LLM_PROVIDER"])
    /\ lower(strip(env["LLM_PROVIDER"][1])) = openai
    /\ truthy(env["OPENAI_API_KEY"])

\* C4: resolve_llm raises only when every candidate of the list has been attempted
\* and none can be constructed, and the error carries, for every provider name
\* attempted, the reason it failed.
C4_RaisesOnlyWhenExhausted ==
    l_out.kind = "raise"
       => /\ attempts = [j \in 1..Len(normalized) |-> j]
          /\ \A j \in 1..Len(normalized) : ~can_construct(normalized[j])
          /\ dict_keys(l_out.details) = {normalized[j] : j \in 1..Len(normalized)}
          /\ \A n \in 1..Len(l_out.details) :
               l_out.details[n].value = expected_reason(l_out.details[n].key)

\* C4 witness: the error raised for a google backend whose key is present but whose
\* integration is not installed
C4_Witness ==
    /\ l_out.kind = "raise"
    /\ dict_has(l_out.details, google)
    /\ dict_get(l_out.details, google) = "pacote langchain-google-genai nao instalado"

-----------------------------------------------------------------------------
(* Properties of resolve_backend and resolve_embeddings *)

\* the provider inferred from the credentials: A, else B, else offline
inferred_from_credentials ==
    IF truthy(env["OPENAI_API_KEY"]) THEN openai
    ELSE IF truthy(env["GOOGLE_API_KEY"]) THEN google
    ELSE fake

\* an argument or a setting counts as given when it holds a non-blank string
given(o) == truthy(o) /\ strip(o[1]) # <<>>

evaluate(name) ==
    IF name \in {openai, google, fake}
    THEN Return(name)
    ELSE Raise("ValueError", "UnsupportedBackend")

\* C5 as stated: resolve_backend evaluates the explicit argument if given, else the
\* configuration override if set, else the provider inferred from the credentials,
\* and returns it if it is one of the three known names and raises otherwise.
C5_StrictPrecedence ==
    e_backend.kind # "none"
       => e_backend =
            evaluate(IF given(explicit_backend) THEN lower(strip(explicit_backend[1]))
                     ELSE IF given(env["EMBEDDINGS_PROVIDER"])
                          THEN lower(strip(env["EMBEDDINGS_PROVIDER"][1]))
                          ELSE inferred_from_credentials)

\* C5 amended: the value chosen is the explicit argument if it is non-empty, else
\* the configuration override if it is non-empty; trimmed and lower-cased it is the
\* name evaluated, unless nothing was chosen or the chosen value is blank, and then
\* the name is inferred from the credentials (the override is not consulted after a
\* blank explicit argument).  The result is one of the three names or the error.
C5_PrecedenceOfNonEmpty ==
    e_backend.kind # "none"
       => LET chosen == IF explicit_backend # None /\ explicit_backend[1] # <<>>
                        THEN explicit_backend[1]
                        ELSE IF env["EMBEDDINGS_PROVIDER"] # None
                                /\ env["EMBEDDINGS_PROVIDER"][1] # <<>>
                             THEN env["EMBEDDINGS_PROVIDER"][1]
                             ELSE <<>>
          IN /\ e_backend = evaluate(IF strip(chosen) = <<>>
                                     THEN inferred_from_credentials
                                     ELSE lower(strip(chosen)))
             /\ \/ e_backend.kind = "return" /\ e_backend.value \in {openai, google, fake}
                \/ e_backend = Raise("ValueError", "UnsupportedBackend")

\* C5 witness: a blank explicit argument with the override naming google and no
\* credential: the offline provider is returned
C5_Witness ==
    /\ explicit_backend = Some(<<" ">>)
    /\ env["EMBEDDINGS_PROVIDER"] = Some(google)
    /\ e_backend = Return(fake)

\* the provider resolve_embeddings resolves
resolved_backend == resolve_backend(explicit_backend)

\* C6 as stated: resolve_embeddings raises the credential error whenever the resolved
\* provider is a cloud provider whose credential is absent, and returns whenever the
\* resolved provider is the offline one.
C6_CredentialErrorOrOfflineSuccess ==
    (e_embeddings.kind # "none" /\ resolved_backend.kind = "return")
       => /\ (resolved_backend.value = openai /\ ~truthy(env["OPENAI_API_KEY"]))
                => e_embeddings = Raise("RuntimeError", "CredentialMissing")
          /\ (resolved_backend.value = google /\ ~truthy(env["GOOGLE_API_KEY"]))
                => e_embeddings = Raise("RuntimeError", "CredentialMissing")
          /\ resolved_backend.value = fake => e_embeddings.kind = "return"

\* the dimension overrides drawn that int() accepts, with their values
accepted_sizes ==
    { <<Some(<<"8">>), 8>>, <<Some(<<" ","1","6","\n">>), 16>>,
      <<Some(<<"-","4">>), 0 - 4>>, <<Some(<<"1","_","0">>), 10>>, <<None, 1536>> }

\* C6 amended: resolve_embeddings fails whenever the resolved provider is a cloud
\* provider whose credential is absent: with the credential error, except that for
\* cloud B the capability error comes first when the integration is not installed.
\* With the offline provider resolved it returns the pseudo-embedding generator when
\* the dimension override is unset or a decimal integer literal, and fails with a
\* ValueError for any other override.
C6_FailsWithoutCredential ==
    (e_embeddings.kind # "none" /\ resolved_backend.kind = "return")
       => /\ (resolved_backend.value = openai /\ ~truthy(env["OPENAI_API_KEY"]))
                => e_embeddings = Raise("RuntimeError", "CredentialMissing")
          /\ (resolved_backend.value = google /\ ~truthy(env["GOOGLE_API_KEY"]))
                => e_embeddings = IF GoogleGenerativeAIEmbeddings
                                  THEN Raise("RuntimeError", "CredentialMissing")
                                  ELSE Raise("RuntimeError", "CapabilityUnavailable")
          /\ resolved_backend.value = fake
                => IF \E a \in accepted_sizes : a[1] = env["FAKE_EMBEDDING_SIZE"]
                   THEN \E a \in accepted_sizes :
                          /\ a[1] = env["FAKE_EMBEDDING_SIZE"]
                          /\ e_embeddings =
                               Return([backend |-> fake,
                                       embeddings |-> [class |-> "FakeEmbeddings",
                                                       size |-> a[2]]])
                   ELSE e_embeddings.kind = "raise" /\ e_embeddings.type = "ValueError"

\* C6 witness: google resolved, key absent, integration not installed
C6_Witness ==
    /\ e_embeddings = Raise("RuntimeError", "CapabilityUnavailable")
    /\ resolved_backend = Return(google)
    /\ ~truthy(env["GOOGLE_API_KEY"])

-----------------------------------------------------------------------------
(* Properties of search_similar_chunks *)

\* the query is empty or consists of whitespace only
blank(q) == strip(q) = <<>>

\* C7 as stated: for every empty or whitespace-only query, search raises EmptyQuery
\* and no backend resolution, connection resolution or store call is made.
C7_BlankQueryRejected ==
    (s_pc # "idle" /\ blank(query))
       => /\ calls = <<>>
          /\ s_pc \in {"check", "done"}
          /\ s_pc = "done" => s_out = Raise("ValueError", "EmptyQuery")

\* C7 amended: for every empty query (no characters at all), search raises
\* EmptyQuery before any embedding backend resolution, connection resolution or
\* store call is made; a query of whitespace only is not rejected.
C7_EmptyQueryRejected ==
    (s_pc # "idle" /\ query = <<>>)
       => /\ calls = <<>>
          /\ s_pc \in {"check", "done"}
          /\ s_pc = "done" => s_out = Raise("ValueError", "EmptyQuery")

\* C7 witness: the search of the empty query has ended
C7_Witness ==
    /\ query = <<>>
    /\ s_pc = "done"

-----------------------------------------------------------------------------
(* Properties of the chat loop *)

called(name) == \E n \in 1..Len(calls) : calls[n] = name

\* search_similar_chunks returned a context that is not empty
context_retrieved == s_out.kind = "return" /\ s_out.value.context # <<>>

\* C8: in a turn the language model is invoked if and only if the retrieved context
\* is not empty; with an empty context the answer is the out-of-context sentinel and
\* neither build_prompt nor the language model is called.
C8_InvokeIffContext ==
    /\ called("invoke") => (context_retrieved /\ called("build_prompt"))
    /\ called("build_prompt") => context_retrieved
    /\ m_pc = "print"
         => /\ called("invoke") <=> context_retrieved
            /\ (s_out.kind = "return" /\ s_out.value.context = <<>>)
                  => /\ h_out = Return(DEFAULT_OUT_OF_CONTEXT)
                     /\ ~called("build_prompt")
                     /\ ~called("invoke")

\* C8 witness: two chunks were retrieved, both blank, and the turn has its answer
C8_Witness ==
    /\ m_pc = "print"
    /\ s_out.kind = "return"
    /\ Len(s_out.value.results) = 2
    /\ s_out.value.context = <<>>

\* C9: an error raised while a turn is processed (by retrieval, by the embedding
\* re-resolution, by generation) reaches the handler of the loop, which prints the
\* generic failure message and no answer, keeps the process running and goes back to
\* reading input; only an interrupt takes a turn out of the loop.
C9_TurnErrorKeepsLoopRunning ==
    [][ /\ (m_pc = "turn" /\ s_out.kind = "raise" /\ m_pc' # "interrupted")
            => (m_pc' = "print" /\ h_out' = s_out)
        /\ (m_pc = "invoke" /\ m_pc' # "interrupted")
            => (m_pc' = "print" /\ h_out'.kind \in {"return", "raise"})
        /\ (m_pc = "print" /\ h_out.kind = "raise" /\ m_pc' # "interrupted")
            => /\ m_pc' = "input"
               /\ stdout' = Append(stdout, GENERIC_FAILURE)
               /\ exit_status' = exit_status
               /\ exit_status = "running"
        /\ (m_pc \in {"turn", "invoke", "print"})
            => m_pc' \in {"turn", "invoke", "print", "input", "interrupted"}
      ]_vars

\* C9 witness: after a turn that failed, the next line has been read and is processed
C9_Witness ==
    /\ lines_read = 2
    /\ m_pc = "turn"
    /\ stdout = <<BANNER, GENERIC_FAILURE>>

\* C10: a line that, trimmed and lower-cased, is a quit token makes the loop print
\* the farewell and terminate with no retrieval and no language-model call for that
\* line, and nothing is read, called or printed after termination.
C10_QuitTerminates ==
    [][ /\ (lines_read' = lines_read + 1 /\ lower(strip(line')) \in QuitTokens)
            => /\ m_pc' = "terminated"
               /\ stdout' = Append(stdout, FAREWELL)
               /\ exit_status' = "0"
               /\ calls' = <<>>
               /\ s_pc' = "idle"
        /\ m_pc = "terminated"
            => (lines_read' = lines_read /\ calls' = calls /\ stdout' = stdout
                /\ s_pc' = s_pc /\ m_pc' = m_pc)
      ]_vars

\* C10 witness: the second line read is "/EXIT " and the loop has terminated
C10_Witness ==
    /\ m_pc = "terminated"
    /\ lines_read = 2
    /\ line = <<"/","E","X","I","T"," ">>
    /\ stdout[Len(stdout)] = FAREWELL

\* a step of the loop that no line of input causes: the loop is left, from the wait
\* for input or from inside a turn, and no line was read
signal_step ==
    /\ m_pc \in {"input", "turn", "invoke", "print"}
    /\ m_pc' \in {"terminated", "interrupted"}
    /\ lines_read' = lines_read

\* C11 as stated: wherever the loop is, waiting for input or processing a turn, a
\* signal takes it directly to Terminated and the farewell is printed.
C11_SignalAlwaysTerminates ==
    [][ signal_step
            => /\ m_pc' = "terminated"
               /\ stdout' = Append(stdout, FAREWELL_AFTER_SIGNAL)
      ]_vars

\* C11 amended: a signal that arrives while the loop waits for input takes it
\* directly to Terminated, the farewell is printed and the status is 0; an interrupt
\* that arrives while a turn is processed is not caught by the loop: it leaves main
\* with nothing printed and the loop is not in Terminated.
C11_SignalWhileWaitingTerminates ==
    [][ /\ (signal_step /\ m_pc = "input")
            => /\ m_pc' = "terminated"
               /\ stdout' = Append(stdout, FAREWELL_AFTER_SIGNAL)
               /\ exit_status' = "0"
        /\ (signal_step /\ m_pc # "input")
            => /\ m_pc' = "interrupted"
               /\ stdout' = stdout
               /\ exit_status' = "KeyboardInterrupt"
      ]_vars

\* C11 witness: one line was answered, then the signal arrived at the prompt
C11_Witness ==
    /\ m_pc = "terminated"
    /\ lines_read = 1
    /\ Len(stdout) = 3
    /\ stdout[3] = FAREWELL_AFTER_SIGNAL

-----------------------------------------------------------------------------
(* Properties of the ingestion *)

\* the store operations called so far in the current run, in call order
store_ops == [n \in 1..Len(store_calls) |-> store_calls[n].op]

\* the call at position n of the run failed
call_failed(n) == store_calls[n].outcome.kind = "raise"

\* the store has been reached: the constructor did not fail
past_construct == i_pc \in {"create", "add"} \/ (i_pc = "done" /\ store_calls # <<>>)

\* C12: in a run, delete_collection is called exactly when reset_collection is set,
\* as the first store call and so before create_collection; when it fails the run goes
\* on: create_collection is the next call, and add_documents follows whenever the
\* creation succeeded or said "already exists".
C12_DeleteOnlyOnResetAndNeverFatal ==
    /\ \A n \in 1..Len(store_calls) :
         store_ops[n] = "delete_collection" => (reset_collection /\ n = 1)
    /\ (past_construct /\ reset_collection)
         => (store_calls # <<>> /\ store_ops[1] = "delete_collection")
    /\ (store_calls # <<>> /\ ~reset_collection) => store_ops[1] = "create_collection"
    /\ (i_pc = "done" /\ store_calls # <<>> /\ store_ops[1] = "delete_collection")
         => /\ Len(store_calls) >= 2
            /\ store_ops[2] = "create_collection"
            /\ (~call_failed(2) \/ says_already_exists(store_calls[2].outcome.error))
                 => (Len(store_calls) = 3 /\ store_ops[3] = "add_documents")
    /\ (i_pc = "delete") => (store_calls = <<>> /\ i_out = NoOutcome)

\* C12 witness: a reset run whose deletion failed has created the collection, written
\* the documents and returned
C12_Witness ==
    /\ i_pc = "done"
    /\ reset_collection
    /\ Len(store_calls) = 3
    /\ call_failed(1)
    /\ ~call_failed(2)
    /\ i_out.kind = "return"

\* position of the call of create_collection in the run, 0 before it is made
create_at ==
    IF \E n \in 1..Len(store_calls) : store_ops[n] = "create_collection"
    THEN CHOOSE n \in 1..Len(store_calls) : store_ops[n] = "create_collection"
    ELSE 0

\* C13: when create_collection fails, the run goes on to add_documents exactly when
\* the message of the failure says "already exists" (in any letter case); any other
\* failure is raised to the caller as it is, add_documents is not called and the
\* rows of the collection are those the run found (or none after a deletion).
C13_OnlyAlreadyExistsTolerated ==
    (create_at # 0 /\ call_failed(create_at))
        => LET failure == store_calls[create_at].outcome
           IN IF says_already_exists(failure.error)
              THEN /\ i_pc \in {"add", "done"}
                   /\ i_pc = "done"
                        => /\ Len(store_calls) = create_at + 1
                           /\ store_ops[create_at + 1] = "add_documents"
                           /\ i_out = IF call_failed(create_at + 1)
                                      THEN store_calls[create_at + 1].outcome
                                      ELSE Return(Len(documents))
              ELSE /\ i_pc = "done"
                   /\ i_out = failure
                   /\ Len(store_calls) = create_at
                   /\ store.rows \in {rows_before, <<>>}
                   /\ ids = <<>>

\* C13 witness: the creation said the collection already exists and the documents
\* were written
C13_Witness ==
    /\ i_pc = "done"
    /\ create_at # 0
    /\ call_failed(create_at)
    /\ store_calls[create_at].outcome.error = DUPLICATE_COLLECTION
    /\ i_out = Return(Len(documents))
    /\ Len(store.rows) >= Len(documents)

\* the number an identifier carries after its prefix
id_index(doc_id) == int_str(SubSeq(doc_id, Len(DOC_PREFIX) + 1, Len(doc_id)))

\* C14: once the identifiers of a run are assigned there is one per document, the
\* identifier of the i-th document (from 0) is "doc-" followed by the decimal digits
\* of i, no two documents of the batch share an identifier, the store is handed the
\* documents in input order with these identifiers, and the count returned is the
\* number of documents.
C14_SequentialDistinctIds ==
    (i_pc = "done" /\ store_calls # <<>>
       /\ store_ops[Len(store_calls)] = "add_documents")
        => /\ Len(ids) = Len(documents)
           /\ \A i \in 1..Len(ids) :
                /\ SubSeq(ids[i], 1, Len(DOC_PREFIX)) = DOC_PREFIX
                /\ id_index(ids[i]) = Return(i - 1)
           /\ \A i, j \in 1..Len(ids) : i # j => ids[i] # ids[j]
           /\ i_out.kind = "return"
                => /\ i_out.value = Len(documents)
                   /\ store_calls[Len(store_calls)].outcome.value
                        = [documents |-> documents, ids |-> ids]
                   /\ \A i \in 1..Len(ids) :
                        /\ dict_has(store.rows, ids[i])
                        /\ dict_get(store.rows, ids[i]) = documents[i]

\* C14 witness: a batch with two-digit identifiers was written and counted
C14_Witness ==
    /\ i_pc = "done"
    /\ i_out = Return(MaxDocs)
    /\ Len(documents) = MaxDocs
    /\ ids[MaxDocs] = DOC_PREFIX \o format_int(MaxDocs - 1)
    /\ Len(ids[MaxDocs]) > Len(DOC_PREFIX) + 1

min(a, b) == IF a <= b THEN a ELSE b
max(a, b) == IF a >= b THEN a ELSE b

\* an append run that wrote its n documents has followed a run that wrote m
\* documents, and the collection held the m rows of that run when it started
append_follows_run ==
    /\ i_pc = "done"
    /\ runs >= 2
    /\ i_args.append
    /\ i_out.kind = "return"
    /\ previous_out.kind = "return"
    /\ Len(rows_before) = previous_out.value

\* C20: the identifiers of every run start again at doc-0. When an append run of n
\* documents follows a run of m documents, its first min(m, n) identifiers are those
\* of the first rows of the earlier run, these rows now hold the documents of the
\* append run, the other rows of the earlier run are kept, and the collection ends
\* with max(m, n) rows, not m + n.
C20_AppendOverwritesFromDocZero ==
    /\ (i_pc = "done" /\ ids # <<>>) => ids[1] = DOC_PREFIX \o <<"0">>
    /\ append_follows_run
        => LET m == previous_out.value
               n == i_out.value
           IN /\ \A i \in 1..min(m, n) :
                   /\ ids[i] = rows_before[i].key
                   /\ dict_get(store.rows, ids[i]) = documents[i]
                   /\ rows_before[i].value # documents[i]
              /\ \A i \in (min(m, n) + 1)..m :
                   /\ dict_has(store.rows, rows_before[i].key)
                   /\ dict_get(store.rows, rows_before[i].key) = rows_before[i].value
              /\ Len(store.rows) = max(m, n)
              /\ Len(store.rows) < m + n

\* C20 witness: two documents appended to a collection of MaxDocs rows left MaxDocs
\* rows
C20_Witness ==
    /\ append_follows_run
    /\ previous_out.value = MaxDocs
    /\ i_out.value = 2
    /\ Len(store.rows) = MaxDocs

-----------------------------------------------------------------------------
(* Properties of resolve_pgvector_url *)

\* user and password of a netloc: what stands before the last "@"
userinfo(netloc) == SubSeq(netloc, 1, find_last(netloc, {"@"}, Len(netloc)))

\* port of a netloc: what stands after the ":" that follows the host
port(netloc) ==
    LET at == find_last(netloc, {"@"}, Len(netloc))
        hostport == SubSeq(netloc, at + 1, Len(netloc))
        colon == find_first(hostport, {":"}, 1)
    IN IF colon = 0 THEN <<>> ELSE SubSeq(hostport, colon, Len(hostport))

\* the connection URL the call read from the environment
configured_url ==
    get_env_value(<<"PGVECTOR_URL", "DATABASE_URL", "PG_VECTOR_URL">>, TRUE)

\* the call is over, the URL had a hostname and its lookup failed
lookup_failed ==
    /\ u_pc = "done"
    /\ configured_url.kind = "return"
    /\ hostname(urlsplit(configured_url.value).netloc) # None
    /\ ~u_dns

\* C15: when the lookup of the hostname fails and a fallback host is set, the URL
\* returned has the fallback host as its hostname and the scheme, user and password,
\* port, path and query of the configured URL, and a warning is logged; when no
\* fallback host is set the call raises the lookup error and returns no URL.
C15_FallbackReplacesOnlyTheHost ==
    lookup_failed
        => LET fallback == getenv("PGVECTOR_FALLBACK_HOST")
               before == urlsplit(configured_url.value)
           IN IF truthy(fallback)
              THEN /\ u_out.kind = "return"
                   /\ LET after == urlsplit(u_out.value)
                      IN /\ hostname(after.netloc) = Some(lower(fallback[1]))
                         /\ after.scheme = before.scheme
                         /\ userinfo(after.netloc) = userinfo(before.netloc)
                         /\ port(after.netloc) = port(before.netloc)
                         /\ after.rest = before.rest
                   /\ u_log = <<"WARNING">>
              ELSE /\ u_out = Raise("OSError", "NetworkResolutionError")
                   /\ u_log = <<>>

-----------------------------------------------------------------------------
(* Properties of the context and of the offline echo backend *)

\* a chunk text with no character other than whitespace
is_blank(text) == \A n \in 1..Len(text) : text[n] \in Whitespace

\* a text from its first to its last character that is not whitespace
trimmed(text) ==
    LET solid == {n \in 1..Len(text) : text[n] \notin Whitespace}
    IN IF solid = {} THEN <<>>
       ELSE SubSeq(text, CHOOSE n \in solid : \A o \in solid : n <= o,
                         CHOOSE n \in solid : \A o \in solid : n >= o)

\* the context read off the ranked chunks one by one: a blank chunk adds nothing, any
\* other adds its trimmed text, set apart from what follows by an empty line
RECURSIVE context_of(_)
context_of(results) ==
    IF results = <<>> THEN <<>>
    ELSE LET rest == context_of(Tail(results))
         IN IF is_blank(Head(results)) THEN rest
            ELSE IF rest = <<>> THEN trimmed(Head(results))
                 ELSE trimmed(Head(results)) \o <<"\n", "\n">> \o rest

\* C16: the context search returns is made of the trimmed texts of the chunks that
\* are not blank, in ranked order, with an empty line between two of them and nothing
\* for a blank chunk; it is empty exactly when no chunk was retrieved or every chunk
\* retrieved is blank.
C16_ContextOfNonBlankChunks ==
    s_out.kind = "return"
        => /\ s_out.value.context = context_of(s_out.value.results)
           /\ s_out.value.context = <<>>
                <=> \A n \in 1..Len(s_out.value.results) : is_blank(s_out.value.results[n])

\* C16 witness: a blank chunk ranked before a chunk with text; the context is that text
C16_Witness ==
    /\ s_out.kind = "return"
    /\ Len(s_out.value.results) = 2
    /\ is_blank(s_out.value.results[1])
    /\ s_out.value.results[1] # <<>>
    /\ s_out.value.context = <<"b">>

\* the answer of the offline backend that says the question is out of context
OUT_OF_CONTEXT_ANSWER == Return([is_str |-> TRUE, text |-> DEFAULT_OUT_OF_CONTEXT])

\* C17: the offline echo backend, invoked on the prompt rendered for any question and
\* a context that is empty or is "N/A" (alone or within whitespace), returns the fixed
\* out-of-context message; so it does for build_prompt(q, "") whatever q is.
C17_EchoOutOfContext ==
    p_pc = "done"
        => /\ strip(p_context) \in {<<>>, NOT_AVAILABLE} => p_out = OUT_OF_CONTEXT_ANSWER
           /\ p_context = <<>>
                => /\ p_prompt = build_prompt(p_question, <<>>)
                   /\ local_echo_invoke(build_prompt(p_question, <<>>)) = OUT_OF_CONTEXT_ANSWER
                   /\ p_out = OUT_OF_CONTEXT_ANSWER

\* C17 witness: the question holds the headings of the template, the context is empty
\* and the backend has answered with the fixed message
C17_Witness ==
    /\ p_pc = "done"
    /\ p_context = <<>>
    /\ p_question = <<"q", "\n", "\n", CONTEXTO, "\n", "z", "\n", REGRAS>>
    /\ p_out = OUT_OF_CONTEXT_ANSWER

-----------------------------------------------------------------------------
(* Properties of the session *)

\* C18: in a session resolve_llm is entered once, from the start of main, and never
\* again; a line is read only after it has returned a backend; that backend is kept
\* unchanged and is the one every turn invokes; when resolve_llm raises, main exits
\* with status 1, and then no line is read, no retrieval is made and nothing is
\* printed.
C18_BackendResolvedOnceBeforeInput ==
    [][ /\ (l_pc' = "candidates" /\ l_pc # "candidates")
            => (l_pc = "idle" /\ m_pc = "start" /\ lines_read = 0)
        /\ l_pc # "idle" => l_pc' # "idle"
        /\ lines_read' # lines_read
            => /\ l_pc = "done"
               /\ l_out.kind = "return"
               /\ llm_backend = l_out
        /\ llm_backend.kind = "return" => llm_backend' = llm_backend
        /\ (m_pc = "invoke" /\ m_pc' = "print")
            => /\ llm_backend = l_out
               /\ llm_backend.client = "_LocalEchoLLM"
                    => h_out' = LET answer == local_echo_invoke(prompt)
                                IN IF answer.kind = "raise" THEN answer
                                   ELSE Return(strip(answer.value.text))
        /\ (m_pc = "resolve_llm" /\ l_pc = "done" /\ l_out.kind = "raise" /\ m_pc' # m_pc)
            => (m_pc' = "exited" /\ exit_status' = "1")
        /\ m_pc = "exited"
            => /\ exit_status = "1"
               /\ lines_read = 0 /\ lines_read' = 0
               /\ s_pc = "idle" /\ s_pc' = "idle"
               /\ calls = <<>> /\ calls' = <<>>
               /\ stdout = <<>> /\ stdout' = <<>>
      ]_vars

\* C18 witness: the second turn of a session is about to invoke the backend that was
\* resolved at the start
C18_Witness ==
    /\ m_pc = "invoke"
    /\ lines_read = 2
    /\ l_pc = "done"
    /\ llm_backend = l_out
    /\ llm_backend.kind = "return"

\* a session whose resolution failed has exited
C18_WitnessExit ==
    /\ m_pc = "exited"
    /\ l_out.kind = "raise"

-----------------------------------------------------------------------------
(* Properties of the repeated candidate *)

\* chat.py:76-105 run over a given list: the backend of the first candidate that can
\* be constructed, with the reasons recorded on the way
RECURSIVE resolve_over(_, _)
resolve_over(cands, recorded) ==
    IF cands = <<>>
    THEN [kind |-> "raise", provider |-> <<>>, model |-> <<>>, errors |-> recorded]
    ELSE IF can_construct(Head(cands))
         THEN [kind |-> "return", provider |-> Head(cands),
               model |-> or_else(model_override,
                                 Some(CASE Head(cands) = openai -> OPENAI_DEFAULT_CHAT_MODEL
                                        [] Head(cands) = google -> GOOGLE_DEFAULT_CHAT_MODEL
                                        [] OTHER -> FAKE_DEFAULT_CHAT_MODEL))[1],
               errors |-> recorded]
         ELSE resolve_over(Tail(cands),
                           dict_set(recorded, Head(cands), expected_reason(Head(cands))))

\* the list with the later occurrences of its first element removed
without_duplicate(cands) ==
    <<Head(cands)>> \o SelectSeq(Tail(cands), LAMBDA c : c # Head(cands))

\* the outcome of the call in progress, in the form resolve_over gives
outcome ==
    [kind |-> l_out.kind,
     provider |-> IF l_out.kind = "return" THEN l_out.provider ELSE <<>>,
     model |-> IF l_out.kind = "return" THEN l_out.model ELSE <<>>,
     errors |-> errors]

\* the call is over, no provider was preferred and the provider named by LLM_PROVIDER
\* is one of the default list
configured_in_defaults ==
    /\ l_pc = "done"
    /\ ~truthy(preferred_provider)
    /\ normalized # <<>>
    /\ normalized[1] = lower(strip(getenv_default("LLM_PROVIDER", <<>>)[1]))
    /\ normalized[1] \in {openai, google, fake}

\* positions of the list at which the configured provider stands
positions == {j \in 1..Len(normalized) : normalized[j] = normalized[1]}

\* number of attempts made on the configured provider
tries == Cardinality({j \in 1..Len(attempts) : attempts[j] \in positions})

\* the configured provider stands twice in the list and the call ends as it would on
\* the list without the repetition
repeated_and_same_outcome ==
    /\ Cardinality(positions) = 2
    /\ Len(normalized) = Len(without_duplicate(normalized)) + 1
    /\ outcome = resolve_over(normalized, <<>>)
    /\ outcome = resolve_over(without_duplicate(normalized), <<>>)

\* C19 as stated: with no preferred provider and LLM_PROVIDER naming a provider of
\* the default list, that provider stands twice in the candidate list, it is
\* attempted twice when it fails, and the provider and model returned and the
\* diagnostics recorded are those of the list without the repetition.
C19_RepeatedAndTriedTwiceWhenFailing ==
    configured_in_defaults
        => /\ repeated_and_same_outcome
           /\ ~can_construct(normalized[1]) => tries = 2

\* C19 amended: the same, but the failing provider is attempted a second time only
\* when no candidate standing between its two occurrences can be constructed;
\* otherwise the call returns before the second occurrence and it is attempted once.
C19_RepeatedAndTriedTwiceUnlessReturnedBefore ==
    configured_in_defaults
        => /\ repeated_and_same_outcome
           /\ tries = IF can_construct(normalized[1]) THEN 1
                      ELSE IF \E j \in 1..Len(normalized) :
                                 /\ \E a, b \in positions : a < j /\ j < b
                                 /\ can_construct(normalized[j])
                           THEN 1 ELSE 2

\* C19 witness: LLM_PROVIDER names google, which fails, and openai, standing between
\* the two occurrences, is returned: google was attempted once
C19_Witness ==
    /\ configured_in_defaults
    /\ normalized = <<google, openai, google, fake>>
    /\ attempts = <<1, 2>>
    /\ l_out.provider = openai
    /\ dict_keys(errors) = {google}

-----------------------------------------------------------------------------
(* Properties of the call without a preferred provider *)

\* C21: a call of resolve_llm with no preferred provider (None or the empty string)
\* never reaches the raise of the initialization error and ends only by returning a
\* backend, whatever LLM_PROVIDER names and whichever credentials are absent: the
\* list it goes through ends with the offline echo backend, which is constructed
\* without any condition, and with no credential at all that is the backend returned.
C21_NoPreferenceAlwaysReturns ==
    ~truthy(preferred_provider)
        => /\ l_pc # "candidates"
                => /\ normalized # <<>>
                   /\ normalized[Len(normalized)] = fake
                   /\ can_construct(normalized[Len(normalized)])
           /\ l_pc = "loop" => (l_i <= Len(normalized) /\ ENABLED resolve_llm)
           /\ l_pc = "done"
                => /\ l_out.kind = "return"
                   /\ l_out.kind # "raise"
                   /\ (~truthy(env["OPENAI_API_KEY"]) /\ ~truthy(env["GOOGLE_API_KEY"]))
                        => (l_out.provider = fake /\ l_out.client = "_LocalEchoLLM")

\* C21 witness: LLM_PROVIDER names an unknown provider, no credential is set, three
\* candidates failed and the offline backend was returned
C21_Witness ==
    /\ l_pc = "done"
    /\ preferred_provider = None
    /\ ~truthy(env["OPENAI_API_KEY"])
    /\ ~truthy(env["GOOGLE_API_KEY"])
    /\ normalized = <<<<"a","z","u","r","e">>, openai, google, fake>>
    /\ attempts = <<1, 2, 3, 4>>
    /\ Len(errors) = 3
    /\ l_out.provider = fake

====
